---- MODULE Spec2Model ----
(***************************************************************************)
(* State-machine model of the chat backends of ai-agent-sample-hub:        *)
(*   A. azure_deepresearch_agent/app.py  - the polled deep-research flow   *)
(*      (run guard, progress poller, result renderer);                     *)
(*   B. azure_realtimeapi_async_fc/app.py (and its twin without tools,     *)
(*      azure_realtimeapi_agent/app.py) - the realtime session machine.    *)
(*                                                                         *)
(* Concurrency is asyncio's: one coroutine runs at a time and control      *)
(* changes hands only at an await.  An action of the model is therefore    *)
(* the code a coroutine executes between two suspension points.  A call    *)
(* to the UI or to the transport takes effect when it is issued, i.e. at   *)
(* the end of the action that reaches it; the coroutine then stays         *)
(* suspended in that call until its next action.  The vendor client of     *)
(* flow A is synchronous, so its calls are not suspension points.          *)
(***************************************************************************)
EXTENDS Integers, Sequences, FiniteSets, TLC

\* ------------------------------------------------------------------ bounds
\* user messages (on_message invocations) of one deep-research session
MaxMsgs == 3
\* user messages of the session in which one message is handled at a time
MaxRuns == 2
\* exceptions the environment (vendor client, UI sink) raises in one behaviour
MaxFaults == 1
\* extra seconds one poll iteration may take on top of the sleep
MaxLatency == 1

\* user text messages of one realtime session
MaxTexts == 2
\* user audio chunks sent on one connection
MaxChunks == 1
\* content events (deltas, arguments-done) the vendor streams in a session
MaxEvents == 3
\* exceptions raised by UI and transport calls of the realtime app
MaxUiFaults == 1
\* utterances the vendor transcribes
MaxUtterances == 2
\* connections one realtime session closes
MaxCloses == 1

\* ---------------------------------------------------- program constants
\* POLL_INTERVAL_SEC and RUN_TIMEOUT_SEC are read from the environment; the
\* values are those of the specification's timeout scenario.
POLL_INTERVAL_SEC == 2
RUN_TIMEOUT_SEC == 5

None == 0
Handlers == 1..MaxMsgs

Min(S) == CHOOSE x \in S : \A y \in S : x <= y

\* =========================================================================
\* A. Deep research: data
\* =========================================================================

\* One line of an agent message's text.  label: the line carries the
\* "cot_summary:" label (body is then what follows the label on that line);
\* letter: the line starts, after blanks, with a letter; colon: a ':' occurs
\* in the line after its start; body: the line's text, "" when blank.
Line(label, letter, colon, body) ==
    [label |-> label, letter |-> letter, colon |-> colon, body |-> body]

TxtPlain == << Line(FALSE, TRUE, FALSE, "thinking") >>
TxtA == << Line(TRUE, TRUE, FALSE, "analyzing sources") >>
TxtAHdr == << Line(TRUE, TRUE, FALSE, "analyzing sources"),
              Line(FALSE, FALSE, FALSE, ""),
              Line(FALSE, TRUE, TRUE, "Next: search") >>
TxtB == << Line(FALSE, TRUE, FALSE, "working"),
           Line(TRUE, FALSE, FALSE, ""),
           Line(FALSE, TRUE, FALSE, "reading"),
           Line(FALSE, FALSE, FALSE, "2 papers") >>
TxtEmpty == << Line(TRUE, FALSE, FALSE, "") >>

Cite(url, title) == [url |-> url, title |-> title]

\* The agent messages the vendor may hold as the thread's latest one:
\* text parts (already stripped and joined) and URL citation annotations.
VendorMessages ==
    { [text |-> TxtA, cites |-> << Cite("u1", "t1") >>],
      [text |-> TxtAHdr, cites |-> << Cite("u1", "t1"), Cite("u1", "") >>],
      [text |-> TxtB, cites |-> << Cite("u2", "t2"), Cite("u1", "t1") >>],
      [text |-> <<>>, cites |-> << Cite("u2", "t2") >>],
      [text |-> TxtEmpty, cites |-> <<>>] }

NoMsg == [run |-> None, text |-> <<>>, cites |-> <<>>]

\* A token streamed to a UI message: a kind and its text.
Tok(k, v) == [k |-> k, v |-> v]

\* ---------------------------------------------------------------- regex
\* re.search(r"(?is)cot_summary:\s*(.*?)(?=\n\s*(?:[A-Z][^:]*:|$)|$)", text)
\* then .group(1).strip().  The capture starts at the first non-blank text
\* after the first label (\s* also consumes newlines) and ends before the
\* first later line that starts with a letter and is followed somewhere by
\* a ':' ((?i) makes [A-Z] any letter, (?s)-free [^:] crosses lines), or at
\* the end of the text.
LabelLines(text) == {i \in 1..Len(text) : text[i].label}

HasColonFrom(text, j) == \E k \in j..Len(text) : text[k].colon

StopsAt(text, j) == text[j].letter /\ HasColonFrom(text, j)

RECURSIVE Capture(_, _)
Capture(text, j) ==
    IF j > Len(text) \/ StopsAt(text, j)
    THEN <<>>
    ELSE <<text[j].body>> \o Capture(text, j + 1)

RECURSIVE Strip(_)
Strip(s) ==
    IF s = <<>> THEN <<>>
    ELSE IF Head(s) = "" THEN Strip(Tail(s))
    ELSE IF s[Len(s)] = "" THEN Strip(SubSeq(s, 1, Len(s) - 1))
    ELSE s

ExtractCot(text) ==
    IF LabelLines(text) = {} THEN <<>>
    ELSE LET i == Min(LabelLines(text))
             nonblank == {j \in i..Len(text) : text[j].body # ""}
         IN  IF nonblank = {} THEN <<>>
             ELSE LET s == Min(nonblank)
                  IN  Strip(<<text[s].body>> \o Capture(text, s + 1))

\* cot_block = f"cot_summary: {cot_content}"
CotBlock(content) == <<"cot_summary: ">> \o content

\* A variant of the membership test that finds every block new.
CotAlwaysNew(block, emitted) == TRUE

\* `if cot_block not in emitted_cot_set`
CotIsNew(block, emitted) == block \notin emitted

\* title = ann.url_citation.title or url
TitleOf(ann) == IF ann.title # "" THEN ann.title ELSE ann.url

\* citation = f"[{title}]({url})"
CitationLine(ann) == << TitleOf(ann), ann.url >>

\* The loop of lines 167-173 over a message's annotations: the citation
\* lines emitted, in order, given those already emitted.
RECURSIVE NewCitations(_, _)
NewCitations(anns, emitted) ==
    IF anns = <<>> THEN <<>>
    ELSE LET c == CitationLine(Head(anns))
         IN  IF c \notin emitted
             THEN <<c>> \o NewCitations(Tail(anns), emitted \cup {c})
             ELSE NewCitations(Tail(anns), emitted)

\* A variant of the loop that appends every annotation, seen or not.
RefLoopAll(anns, seen_urls, references) ==
    references \o [i \in 1..Len(anns) |-> << TitleOf(anns[i]), anns[i].url >>]

\* The reference list of _display_final_results (lines 222-230).
RECURSIVE RefLoop(_, _, _)
RefLoop(anns, seen_urls, references) ==
    IF anns = <<>> THEN references
    ELSE LET ann == Head(anns)
         IN  IF ann.url \notin seen_urls
             THEN RefLoop(Tail(anns), seen_urls \cup {ann.url},
                          Append(references, << TitleOf(ann), ann.url >>))
             ELSE RefLoop(Tail(anns), seen_urls, references)

References(anns) == RefLoop(anns, {}, <<>>)

\* A variant of the comparison that gives up at the limit itself.
TimedOutAtLimit(e) == e >= RUN_TIMEOUT_SEC

\* A variant of the comparison that never gives up.
TimedOutNever(e) == FALSE

\* `time.time() - start_time > timeout_sec`
TimedOut(e) == e > RUN_TIMEOUT_SEC

Range(s) == {s[i] : i \in 1..Len(s)}

Statuses == {"queued", "in_progress", "completed", "failed", "cancelled"}

StatusRank(s) ==
    CASE s = "queued" -> 1
      [] s = "in_progress" -> 2
      [] OTHER -> 3

\* The statuses a run in status s may be seen in at the next runs.get.
Reachable(s) == {t \in Statuses : t = s \/ StatusRank(t) > StatusRank(s)}

\* A multiset of tokens: what a UI message has been streamed, order dropped.
Count(bag, t) == IF t \in DOMAIN bag THEN bag[t] ELSE 0

AddTok(bag, t) ==
    [x \in DOMAIN bag \cup {t} |-> Count(bag, x) + (IF x = t THEN 1 ELSE 0)]

RECURSIVE AddAll(_, _)
AddAll(bag, toks) ==
    IF toks = <<>> THEN bag ELSE AddAll(AddTok(bag, Head(toks)), Tail(toks))

\* =========================================================================
\* A. Deep research: state
\* =========================================================================
VARIABLES
    \* cl.user_session of the deep-research app
    thread_id,          \* "thread_id": None or the vendor thread
    active_run_id,      \* "active_run_id": None or a run id
    emitted_cot_set,    \* "emitted_cot_set": the set, and the poller whose
                        \* local set is the same object (None: nobody's)
    emitted_url_lines,  \* "emitted_url_lines": likewise
    \* the vendor (Azure AI Foundry Agents)
    threads,            \* threads created
    nruns,              \* runs created; run ids are 1..nruns
    run_status,         \* run id -> status, "none" before creation
    last_error,         \* run id -> last_error of a failed run, "" if none
    thread_user_msgs,   \* user messages added to the thread
    thread_args,        \* the thread ids messages.create and runs.create
                        \* were called with
    last_agent_msg,     \* the thread's latest agent message and its run
    \* one on_message invocation per user message; its locals exist from the
    \* call to the return
    pc,                 \* where invocation h is suspended
    run_of,             \* its local `run` (None before _start_run)
    elapsed,            \* time.time() - start_time of its poll loop
    sleeps,             \* asyncio.sleep calls of its poll loop
    gets,               \* runs.get calls of its poll loop
    cot_local,          \* its local emitted_cot_set
    url_local,          \* its local emitted_url_lines
    status_panel,       \* tokens streamed to its status_panel
    results_panel,      \* tokens streamed to its results_panel
    reply,              \* the chat message it sent besides the panels
    \* observations of an invocation, kept until it returns
    saw_active,         \* what _is_run_active() returned at its guard
    end_calls,          \* _end_run calls it made
    cot_again,          \* one of its polls extracted a summary it had emitted
    polled_cots,        \* the summaries its polls extracted
    \* observations of the session
    prior_cots,         \* summaries emitted by invocations that returned
    faults              \* exceptions raised so far by vendor client and UI

sessVars == <<thread_id, active_run_id, emitted_cot_set, emitted_url_lines>>
vendVars == <<threads, nruns, run_status, last_error, thread_user_msgs,
              thread_args, last_agent_msg>>
pollVars == <<elapsed, sleeps, gets, cot_local, url_local>>
uiVars == <<status_panel, results_panel, reply>>
obsVars == <<saw_active, end_calls, cot_again, polled_cots, prior_cots>>
drVars == <<sessVars, vendVars, pc, run_of, pollVars, uiVars, obsVars, faults>>

FreshSet == [owner |-> None, val |-> {}]

InitDR ==
    /\ thread_id = None
    /\ active_run_id = None
    /\ emitted_cot_set = FreshSet
    /\ emitted_url_lines = FreshSet
    /\ threads = 0
    /\ nruns = 0
    /\ run_status = [r \in Handlers |-> "none"]
    /\ last_error = [r \in Handlers |-> ""]
    /\ thread_user_msgs = 0
    /\ thread_args = {}
    /\ last_agent_msg = NoMsg
    /\ pc = [h \in Handlers |-> "idle"]
    /\ run_of = [h \in Handlers |-> None]
    /\ elapsed = [h \in Handlers |-> 0]
    /\ sleeps = [h \in Handlers |-> 0]
    /\ gets = [h \in Handlers |-> 0]
    /\ cot_local = [h \in Handlers |-> {}]
    /\ url_local = [h \in Handlers |-> {}]
    /\ status_panel = [h \in Handlers |-> <<>>]
    /\ results_panel = [h \in Handlers |-> <<>>]
    /\ reply = [h \in Handlers |-> "none"]
    /\ saw_active = [h \in Handlers |-> "unset"]
    /\ end_calls = [h \in Handlers |-> 0]
    /\ cot_again = [h \in Handlers |-> FALSE]
    /\ polled_cots = [h \in Handlers |-> {}]
    /\ prior_cots = {}
    /\ faults = 0

\* =========================================================================
\* B. Realtime session: data
\* =========================================================================

\* An inbound realtime event: its type, the response it belongs to, and for
\* function-call events the call id and the delta or arguments string.
\* Strings are sequences of characters.
Event(type, resp, call, data) ==
    [type |-> type, resp |-> resp, call |-> call, data |-> data]

CallIds == {"c1", "c2"}
Fragments == { <<"a">>, <<"b">> }
DoneArguments == { <<>>, <<"a">>, <<"a", "b">>, <<"b", "a">> }

NoCall == [present |-> FALSE, arguments |-> <<>>]

\* The `name` of the arguments-done event of each call: c1 calls a tool
\* of the session, c2 a function the app does not define.
FunctionName == [c \in CallIds |->
                    IF c = "c1" THEN "get_weather" ELSE "get_stock_price"]

\* A JSON string result: its "error" member, "" when it has none.
Payload(error) == [error |-> error]

\* The local `result` of a task before _execute_function_call returned.
Unbound == [error |-> "(unbound)"]

\* The event types of the user's input transcription
UserDelta == "conversation.item.input_audio_transcription.delta"
UserCompleted == "conversation.item.input_audio_transcription.completed"
UserFailed == "conversation.item.input_audio_transcription.failed"

\* A token streamed to a UI message: the kind of delta it came from and
\* the response, or for the user's speech the utterance, it belongs to.
Token(kind, resp) == [kind |-> kind, resp |-> resp]

\* A cl.Message just created: no content, update() not called.
NewMessage == [content |-> <<>>, updates |-> 0]

\* msg.stream_token(delta) on the message with handle h
Streamed(msgs, h, delta) == [msgs EXCEPT ![h].content = Append(@, delta)]

\* msg.update() on the message with handle h
Updated(msgs, h) == [msgs EXCEPT ![h].updates = @ + 1]

\* The receive loop between two events.
Idle == [at |-> "idle", msg |-> None, delta |-> Token("", None)]

\* A task that was not created.
NoTask == [pc |-> "none", arguments |-> <<>>, result |-> Unbound,
           is_error |-> FALSE]

\* =========================================================================
\* B. Realtime session: state
\* =========================================================================
VARIABLES
    \* cl.user_session of the realtime app (TurnState and the connection)
    connection,                 \* KEY_CONN: None or the open connection
    is_generating,              \* KEY_IS_GENERATING
    is_playing,                 \* KEY_IS_PLAYING
    text_stream_locked,         \* KEY_TEXT_STREAM_LOCKED
    track_id,                   \* KEY_TRACK_ID: the n-th uuid4 drawn
    current_response_message,   \* KEY_CURRENT_RESPONSE_MSG: None or a handle
    pending_function_calls,     \* KEY_PENDING_FUNCTION_CALLS: call id ->
                                \* argument buffer
    \* the on_message invocation in progress
    mpc,                        \* where it is suspended
    barged,                     \* it took the barge-in branch
    arrival,                    \* observed when it was called: track id,
                                \* cancel and interrupt counts, the
                                \* vendor's response in progress
    \* the UI
    ui_messages,                \* agent messages created; handles 1..n
    interrupts,                 \* send_audio_interrupt calls
    audio_sink,                 \* chunks sent: response of origin and track
    \* the transport and the vendor behind it
    inbox,                      \* inbound events not yet dispatched
    vresp,                      \* the response the vendor is generating
    nresp,                      \* responses started; ids are 1..nresp
    heard,                      \* input audio buffered since the last turn
    cancels,                    \* response.cancel requests sent
    appended,                   \* input_audio_buffer.append requests sent
    events,                     \* content events the vendor has emitted
    texts,                      \* user text messages so far
    \* tool execution
    tool_tasks,                 \* tasks created: call id, name, arguments
    \* observations kept for the properties
    fragments,                  \* call id -> the deltas dispatched for it
                                \* since its entry was created
    handed,                     \* per task created: the arguments it got,
                                \* the done event's, and the entry's deltas
    submitted,                  \* TurnState at each user item's submission
    barge_ins,                  \* per rotation: response cancelled, new track
    chunk_in_turn               \* user audio was forwarded during a response

VARIABLES
    \* the receive loop and the tool tasks it creates
    recv_task,                  \* KEY_RECV_TASK: "none", "running", or
                                \* "ended" once _receive_events_loop returned
    task,                       \* call id -> the _execute_function_call_async
                                \* task of that call: the await it is
                                \* suspended in, its `result`, its step
    outputs,                    \* call id -> the function_call_output items
                                \* sent for it, in order
    requests,                   \* call id -> response.create requests its
                                \* task sent
    ui_faults                   \* exceptions raised so far by UI and
                                \* transport calls of the realtime app

execVars == <<recv_task, task, outputs, requests, ui_faults>>

VARIABLES
    \* the receive loop's handler and the messages it streams
    rpc,                        \* the await the handler in progress is
                                \* suspended in, with its locals: the
                                \* message awaited and the delta in hand
    current_user_message,       \* KEY_CURRENT_USER_MSG: None or a handle
    agent_msgs,                 \* per agent message created: the tokens
                                \* streamed to it and its update() calls
    user_msgs,                  \* per user message created: its content
                                \* and its update() calls
    transcribing,               \* the vendor's input transcription: the
                                \* utterances begun, whether the last is
                                \* still being transcribed
    \* observations kept for the properties
    since_create,               \* response.create requests sent since the
                                \* last response.done or error event was
                                \* handled or response.cancel sent
    req_open,                   \* responses started by the app's requests
                                \* whose response.done or error event was
                                \* not handled yet
    completions                 \* tool results fed since the last
                                \* response.done or error event was handled

msgVars == <<rpc, current_user_message, agent_msgs, user_msgs,
             transcribing>>
reqVars == <<since_create, req_open, completions>>

VARIABLES
    \* session teardown (on_chat_end / on_stop)
    cm,                         \* KEY_CM: None or the connection manager
    epc,                        \* where the on_chat_end invocation in
                                \* progress is suspended
    closes,                     \* connections closed by cm.__aexit__
    stale,                      \* call ids whose task holds a connection
                                \* that was closed
    inflight,                   \* stale tasks whose transport request in
                                \* progress was issued before the close
    \* observations kept for the properties
    dead,                       \* transport requests issued on a closed
                                \* connection: call id and operation
    escaped                     \* an exception left on_chat_end

endVars == <<cm, epc, closes, stale, inflight, dead, escaped>>

turnVars == <<is_generating, is_playing, text_stream_locked, track_id,
              current_response_message>>
wireVars == <<inbox, vresp, nresp, heard, cancels, appended, events>>
rtObsVars == <<fragments, handed, submitted, barge_ins, chunk_in_turn>>
rtVars == <<connection, turnVars, pending_function_calls, mpc, barged,
            arrival, ui_messages, interrupts, audio_sink, wireVars, texts,
            tool_tasks, rtObsVars, execVars, msgVars, reqVars, endVars>>

\* The session after on_chat_start (_ensure_session_defaults).
InitRT ==
    /\ connection = None
    /\ is_generating = FALSE
    /\ is_playing = FALSE
    /\ text_stream_locked = FALSE
    /\ track_id = 1
    /\ current_response_message = None
    /\ pending_function_calls = [c \in CallIds |-> NoCall]
    /\ mpc = "idle"
    /\ barged = FALSE
    /\ arrival = [track |-> 1, cancels |-> 0, interrupts |-> 0, resp |-> None]
    /\ ui_messages = 0
    /\ interrupts = 0
    /\ audio_sink = {}
    /\ inbox = <<>>
    /\ vresp = None
    /\ nresp = 0
    /\ heard = FALSE
    /\ cancels = 0
    /\ appended = 0
    /\ events = 0
    /\ texts = 0
    /\ tool_tasks = {}
    /\ fragments = [c \in CallIds |-> <<>>]
    /\ handed = {}
    /\ submitted = {}
    /\ barge_ins = {}
    /\ chunk_in_turn = FALSE
    /\ recv_task = "none"
    /\ task = [c \in CallIds |-> NoTask]
    /\ outputs = [c \in CallIds |-> <<>>]
    /\ requests = [c \in CallIds |-> 0]
    /\ ui_faults = 0
    /\ rpc = Idle
    /\ current_user_message = None
    /\ agent_msgs = <<>>
    /\ user_msgs = <<>>
    /\ transcribing = [n |-> 0, open |-> FALSE]
    /\ since_create = 0
    /\ req_open = {}
    /\ completions = {}
    /\ cm = None
    /\ epc = "idle"
    /\ closes = 0
    /\ stale = {}
    /\ inflight = {}
    /\ dead = {}
    /\ escaped = FALSE

\* =========================================================================
\* A. Deep research: run guard
\* =========================================================================

\* No invocation is between its last statement and the drop of its frame:
\* the drop belongs to the step that ends the invocation, so nothing else
\* runs before it.
Settled == \A k \in Handlers : pc[k] # "done"

\* A variant of the lookup that never finds the session's thread.
ThreadNeverCached(tid) == FALSE

\* `if thread_id:` in _get_or_create_thread_id (lines 62-64)
ThreadCached(tid) == tid # None

\* _is_run_active
IsRunActive == active_run_id # None

\* _end_run, called by invocation h
EndRun(h) ==
    /\ active_run_id' = None
    /\ end_calls' = [end_calls EXCEPT ![h] = @ + 1]

\* on_message, lines 246-260: an empty query is answered and dropped; else
\* the two panels are sent and the invocation is suspended in those sends.
OnMessage(h) ==
    /\ Settled
    /\ UNCHANGED rtVars
    /\ pc[h] = "idle"
    /\ \A k \in Handlers : k < h => pc[k] # "idle"
    /\ \E empty \in BOOLEAN :
         IF empty
         THEN /\ pc' = [pc EXCEPT ![h] = "done"]
              /\ reply' = [reply EXCEPT ![h] = "prompt"]
              /\ UNCHANGED status_panel
         ELSE /\ pc' = [pc EXCEPT ![h] = "panels"]
              /\ status_panel' = [status_panel EXCEPT
                     ![h] = AddTok(@, Tok("starting", <<>>))]
              /\ UNCHANGED reply
    /\ UNCHANGED <<sessVars, vendVars, run_of, pollVars, results_panel,
                   obsVars, faults>>

\* The handler of the outer `except Exception` (lines 309-311) up to its
\* await: the notice is streamed, _end_run follows in ExceptEnd.
ToExcept(h, panel) ==
    /\ pc' = [pc EXCEPT ![h] = "except"]
    /\ status_panel' = [status_panel EXCEPT
           ![h] = AddTok(panel, Tok("unexpected", <<>>))]

\* on_message, lines 262-293 (and 118-120 of the poll loop): everything
\* between the panels' sends and the next await.  `fault` is the call that
\* raises, if one does.
StartResearch(h) ==
    /\ Settled
    /\ UNCHANGED rtVars
    /\ pc[h] = "panels"
    /\ \E fault \in {"none", "panel", "clients", "thread", "message", "run"} :
         /\ fault # "none" => faults < MaxFaults
         /\ faults' = IF fault = "none" THEN faults ELSE faults + 1
         /\ CASE fault = "panel" ->
                   \* a panel's send raised: outside every try
                   /\ pc' = [pc EXCEPT ![h] = "done"]
                   /\ UNCHANGED <<sessVars, vendVars, run_of, pollVars,
                                  uiVars, obsVars>>
              [] fault = "clients" ->
                   \* _create_clients raised: lines 264-266
                   /\ pc' = [pc EXCEPT ![h] = "done"]
                   /\ status_panel' = [status_panel EXCEPT
                          ![h] = AddTok(@, Tok("init_failed", <<>>))]
                   /\ UNCHANGED <<sessVars, vendVars, run_of, pollVars,
                                  results_panel, reply, obsVars>>
              [] fault = "thread" ->
                   \* threads.create raised in _get_or_create_thread_id
                   /\ thread_id = None
                   /\ ToExcept(h, status_panel[h])
                   /\ UNCHANGED <<sessVars, vendVars, run_of, pollVars,
                                  results_panel, reply, obsVars>>
              [] OTHER ->
                   /\ thread_id' = IF ThreadCached(thread_id)
                                   THEN thread_id ELSE threads + 1
                   /\ threads' = IF ThreadCached(thread_id)
                                 THEN threads ELSE threads + 1
                   /\ saw_active' = [saw_active EXCEPT ![h] =
                          IF IsRunActive THEN "active" ELSE "free"]
                   /\ UNCHANGED <<last_error, last_agent_msg, pollVars,
                                  results_panel, end_calls, cot_again,
                                  polled_cots, prior_cots>>
                   /\ IF IsRunActive
                      THEN \* lines 274-276: warn and return
                           /\ fault = "none"
                           /\ pc' = [pc EXCEPT ![h] = "warn"]
                           /\ reply' = [reply EXCEPT ![h] = "warning"]
                           /\ UNCHANGED <<active_run_id, emitted_cot_set,
                                          emitted_url_lines, nruns, run_status,
                                          thread_user_msgs, thread_args,
                                          run_of, status_panel>>
                      ELSE IF fault = "message"
                      THEN \* messages.create raised
                           /\ ToExcept(h, status_panel[h])
                           /\ UNCHANGED <<active_run_id, emitted_cot_set,
                                          emitted_url_lines, nruns, run_status,
                                          thread_user_msgs, thread_args,
                                          run_of, reply>>
                      ELSE IF fault = "run"
                      THEN \* runs.create raised in _start_run: lines 290-291
                           /\ thread_user_msgs' = thread_user_msgs + 1
                           /\ thread_args' = thread_args \cup {thread_id'}
                           /\ pc' = [pc EXCEPT ![h] = "startfail"]
                           /\ status_panel' = [status_panel EXCEPT
                                  ![h] = AddTok(@, Tok("start_failed", <<>>))]
                           /\ UNCHANGED <<active_run_id, emitted_cot_set,
                                          emitted_url_lines, nruns, run_status,
                                          run_of, reply>>
                      ELSE \* _start_run succeeded; the poll loop is entered
                           /\ fault = "none"
                           /\ thread_user_msgs' = thread_user_msgs + 1
                           /\ thread_args' = thread_args \cup {thread_id'}
                           /\ nruns' = nruns + 1
                           /\ run_status' =
                                  [run_status EXCEPT ![nruns + 1] = "queued"]
                           /\ active_run_id' = nruns + 1
                           /\ emitted_cot_set' = FreshSet
                           /\ emitted_url_lines' = FreshSet
                           /\ run_of' = [run_of EXCEPT ![h] = nruns + 1]
                           /\ pc' = [pc EXCEPT ![h] = "poll"]
                           /\ UNCHANGED <<status_panel, reply>>

\* Line 276: the warning was sent; return.  Or its send raised.
WarnSent(h) ==
    /\ Settled
    /\ UNCHANGED rtVars
    /\ pc[h] = "warn"
    /\ \E raised \in BOOLEAN :
         /\ raised => faults < MaxFaults
         /\ faults' = IF raised THEN faults + 1 ELSE faults
         /\ IF raised
            THEN ToExcept(h, status_panel[h])
            ELSE pc' = [pc EXCEPT ![h] = "done"] /\ UNCHANGED status_panel
    /\ UNCHANGED <<sessVars, vendVars, run_of, pollVars, results_panel, reply,
                   obsVars>>

\* Lines 292-293: after the start-failure notice, _end_run and return.
StartFailed(h) ==
    /\ Settled
    /\ UNCHANGED rtVars
    /\ pc[h] = "startfail"
    /\ \E raised \in BOOLEAN :
         /\ raised => faults < MaxFaults
         /\ faults' = IF raised THEN faults + 1 ELSE faults
         /\ IF raised
            THEN /\ ToExcept(h, status_panel[h])
                 /\ UNCHANGED <<active_run_id, end_calls>>
            ELSE /\ pc' = [pc EXCEPT ![h] = "done"]
                 /\ EndRun(h)
                 /\ UNCHANGED status_panel
    /\ UNCHANGED <<thread_id, emitted_cot_set, emitted_url_lines, vendVars,
                   run_of, pollVars, results_panel, reply, saw_active,
                   cot_again, polled_cots, prior_cots>>

\* Line 311: after the unexpected-error notice, _end_run.  If that notice's
\* stream_token raised, the exception leaves on_message instead.
ExceptEnd(h) ==
    /\ Settled
    /\ UNCHANGED rtVars
    /\ pc[h] = "except"
    /\ \E raised \in BOOLEAN :
         /\ raised => faults < MaxFaults
         /\ faults' = IF raised THEN faults + 1 ELSE faults
         /\ IF raised
            THEN UNCHANGED <<active_run_id, end_calls>>
            ELSE EndRun(h)
    /\ pc' = [pc EXCEPT ![h] = "done"]
    /\ UNCHANGED <<thread_id, emitted_cot_set, emitted_url_lines, vendVars,
                   run_of, pollVars, uiVars, saw_active, cot_again, polled_cots,
                   prior_cots>>

\* on_message has returned (or raised): the coroutine's frame, with its
\* locals and its two panel objects, is dropped.  A set the session still
\* refers to lives on there.
Return(h) ==
    /\ pc[h] = "done"
    /\ UNCHANGED rtVars
    /\ pc' = [pc EXCEPT ![h] = "gone"]
    /\ run_of' = [run_of EXCEPT ![h] = None]
    /\ elapsed' = [elapsed EXCEPT ![h] = 0]
    /\ sleeps' = [sleeps EXCEPT ![h] = 0]
    /\ gets' = [gets EXCEPT ![h] = 0]
    /\ cot_local' = [cot_local EXCEPT ![h] = {}]
    /\ url_local' = [url_local EXCEPT ![h] = {}]
    /\ status_panel' = [status_panel EXCEPT ![h] = <<>>]
    /\ results_panel' = [results_panel EXCEPT ![h] = <<>>]
    /\ emitted_cot_set' = IF emitted_cot_set.owner = h
                          THEN [emitted_cot_set EXCEPT !.owner = None]
                          ELSE emitted_cot_set
    /\ emitted_url_lines' = IF emitted_url_lines.owner = h
                            THEN [emitted_url_lines EXCEPT !.owner = None]
                            ELSE emitted_url_lines
    /\ reply' = [reply EXCEPT ![h] = "none"]
    /\ saw_active' = [saw_active EXCEPT ![h] = "unset"]
    /\ end_calls' = [end_calls EXCEPT ![h] = 0]
    /\ cot_again' = [cot_again EXCEPT ![h] = FALSE]
    /\ polled_cots' = [polled_cots EXCEPT ![h] = {}]
    /\ prior_cots' = prior_cots
           \cup {t.v : t \in {x \in DOMAIN status_panel[h] : x.k = "cot"}}
    /\ UNCHANGED <<thread_id, active_run_id, vendVars, faults>>

\* =========================================================================
\* A. Deep research: progress poller (_poll_run_and_show_progress)
\* =========================================================================

\* The notices one loop iteration streams to the status panel outside any
\* try block, and where the loop goes next.  cut = Len(notices): the sink
\* took them all.  cut < Len(notices): stream_token raised at notice cut+1;
\* the exception leaves the poll loop, the `finally` of on_message calls
\* _end_run and the outer handler streams its notice (lines 306-310).
Notify(h, progress, notices, cut, nextpc) ==
    IF cut = Len(notices)
    THEN /\ status_panel' = [status_panel EXCEPT
                ![h] = AddAll(@, progress \o notices)]
         /\ pc' = [pc EXCEPT ![h] = nextpc]
         /\ UNCHANGED <<active_run_id, end_calls>>
    ELSE /\ ToExcept(h, AddAll(status_panel[h],
                                progress \o SubSeq(notices, 1, cut)))
         /\ EndRun(h)

\* A variant of the poll loop that goes on without sleeping.
SleepSkipped(h, slept, lat) == UNCHANGED <<elapsed, sleeps>>

\* asyncio.sleep(poll_interval), and the clock as read after it
Sleep(h, slept, lat) ==
    /\ elapsed' = [elapsed EXCEPT
           ![h] = IF slept THEN @ + POLL_INTERVAL_SEC + lat ELSE @]
    /\ sleeps' = [sleeps EXCEPT ![h] = IF slept THEN @ + 1 ELSE @]

\* Lines 124-138: runs.get raised.  lats: the extra time an iteration may
\* take.
PollFetchError(h, lats) ==
    /\ Settled
    /\ UNCHANGED rtVars
    /\ pc[h] = "poll"
    /\ \E lat \in lats, cut \in 0..2 :
         LET e2 == elapsed[h] + POLL_INTERVAL_SEC + lat
             notices == << Tok("fetch_error", <<>>) >>
                        \o (IF TimedOut(e2) THEN << Tok("timeout", <<>>) >>
                            ELSE <<>>)
             nf == 1 + (IF cut < Len(notices) THEN 1 ELSE 0)
         IN  /\ cut <= Len(notices)
             /\ cut = 0 => lat = 0
             /\ faults + nf <= MaxFaults
             /\ faults' = faults + nf
             /\ gets' = [gets EXCEPT ![h] = @ + 1]
             /\ Notify(h, <<>>, notices, cut,
                       IF TimedOut(e2) THEN "display" ELSE "poll")
             /\ Sleep(h, cut >= 1, lat)
    /\ UNCHANGED <<thread_id, emitted_cot_set, emitted_url_lines, vendVars,
                   run_of, cot_local, url_local, results_panel, reply,
                   saw_active, cot_again, polled_cots, prior_cots>>

\* The progress lines that lines 147-173 stream for message m: the
\* reasoning summary if it is new, then the citations not yet emitted.
CotLines(h, m) ==
    IF m.text # <<>> /\ ExtractCot(m.text) # <<>>
       /\ CotIsNew(CotBlock(ExtractCot(m.text)), cot_local[h])
    THEN << CotBlock(ExtractCot(m.text)) >>
    ELSE <<>>

UrlLines(h, m) ==
    IF m.text # <<>> THEN NewCitations(m.cites, url_local[h]) ELSE <<>>

\* The agent messages run r's thread may show at a poll: the one it showed
\* before, or one of `posts` that the vendor has posted for r since.
Latest(r, posts) ==
    {last_agent_msg}
    \cup {[run |-> r, text |-> v.text, cites |-> v.cites] : v \in posts}

\* cl.user_session.set(key, local_set): the session now holds the poller's
\* own set object.
Aliased(h, set) == [owner |-> h, val |-> set]

\* A local set the session holds changes in the session too.
Synced(h, sessionset, set) ==
    IF sessionset.owner = h THEN [sessionset EXCEPT !.val = set]
    ELSE sessionset

\* Lines 141-185: the run is queued or in progress.  xfail: progress
\* extraction raised (get_last_message_by_role, or the stream_token of
\* progress line n+1, which then streamed nothing) and was swallowed; n
\* progress lines were streamed.
PollInProgress(h, posts, lats) ==
    /\ Settled
    /\ UNCHANGED rtVars
    /\ pc[h] = "poll"
    /\ \E s \in Reachable(run_status[run_of[h]]) \cap {"queued", "in_progress"},
          m \in Latest(run_of[h], posts),
          xfail \in {x \in BOOLEAN : x => faults < MaxFaults} :
         LET cotl == CotLines(h, m)
             urll == UrlLines(h, m)
             all == Len(cotl) + Len(urll)
             over == TimedOut(elapsed[h])
             notices == IF over THEN << Tok("timeout", <<>>) >> ELSE <<>>
         IN  \E n \in IF xfail
                     THEN {k \in 0..all : k = 0 \/ (Len(cotl) <= k /\ k < all)}
                     ELSE {all},
                lat \in IF over THEN {0} ELSE lats,
                cut \in 0..Len(notices) :
               LET cotn == IF n >= 1 THEN cotl ELSE <<>>
                   urls == SubSeq(urll, 1, n - Len(cotl))
                   progress == [i \in 1..Len(cotn) |-> Tok("cot", cotn[i])]
                               \o [i \in 1..Len(urls) |-> Tok("url", urls[i])]
                   nf == (IF xfail THEN 1 ELSE 0)
                         + (IF cut < Len(notices) THEN 1 ELSE 0)
                   cots == cot_local[h] \cup Range(cotn)
                   lines == url_local[h] \cup Range(urls)
                   polled == IF ~xfail /\ m.text # <<>>
                                /\ ExtractCot(m.text) # <<>>
                             THEN {CotBlock(ExtractCot(m.text))}
                             ELSE {}
               IN  /\ faults + nf <= MaxFaults
                   /\ faults' = faults + nf
                   /\ run_status' = [run_status EXCEPT ![run_of[h]] = s]
                   /\ last_agent_msg' = m
                   /\ gets' = [gets EXCEPT ![h] = @ + 1]
                   /\ cot_local' = [cot_local EXCEPT ![h] = cots]
                   /\ emitted_cot_set' =
                          IF cotn # <<>> THEN Aliased(h, cots)
                          ELSE emitted_cot_set
                   /\ url_local' = [url_local EXCEPT ![h] = lines]
                   /\ emitted_url_lines' =
                          IF ~xfail /\ m.text # <<>> /\ m.cites # <<>>
                          THEN Aliased(h, lines)
                          ELSE Synced(h, emitted_url_lines, lines)
                   /\ cot_again' = [cot_again EXCEPT ![h] =
                          @ \/ \E b \in polled :
                                 Count(status_panel[h], Tok("cot", b)) > 0]
                   /\ polled_cots' = [polled_cots EXCEPT ![h] = @ \cup polled]
                   /\ Notify(h, progress, notices, cut,
                             IF over THEN "display" ELSE "poll")
                   /\ Sleep(h, ~over, lat)
    /\ UNCHANGED <<thread_id, threads, nruns, last_error, thread_user_msgs,
                   thread_args,
                   run_of, results_panel, reply, saw_active, prior_cots>>

\* A variant that leaves the vendor's last_error out.
FailureNoticeOnly(err) == << Tok("failed", <<>>) >>

\* `if run.last_error:` - the notices of a failed run (lines 188-191)
FailedNotices(err) ==
    << Tok("failed", <<>>) >>
    \o (IF err # "" THEN << Tok("detail", <<err>>) >> ELSE <<>>)

\* Lines 187-194: runs.get reports `failed`, with or without last_error.
PollFailed(h) ==
    /\ Settled
    /\ UNCHANGED rtVars
    /\ pc[h] = "poll"
    /\ "failed" \in Reachable(run_status[run_of[h]])
    /\ \E err \in {"", "rate_limited"}, cut \in 0..2 :
         LET notices == FailedNotices(err)
             nf == IF cut < Len(notices) THEN 1 ELSE 0
         IN  /\ cut <= Len(notices)
             /\ faults + nf <= MaxFaults
             /\ faults' = faults + nf
             /\ last_error' = [last_error EXCEPT ![run_of[h]] = err]
             /\ Notify(h, <<>>, notices, cut, "display")
    /\ run_status' = [run_status EXCEPT ![run_of[h]] = "failed"]
    /\ gets' = [gets EXCEPT ![h] = @ + 1]
    /\ UNCHANGED <<thread_id, emitted_cot_set, emitted_url_lines, threads,
                   nruns, thread_user_msgs, thread_args,
                   last_agent_msg, run_of, elapsed,
                   sleeps, cot_local, url_local, results_panel, reply,
                   saw_active, cot_again, polled_cots, prior_cots>>

\* Lines 187-194: runs.get reports any other terminal status; the vendor
\* may have posted the run's final agent message.
PollTerminal(h, posts) ==
    /\ Settled
    /\ UNCHANGED rtVars
    /\ pc[h] = "poll"
    /\ \E s \in Reachable(run_status[run_of[h]])
                  \cap {"completed", "cancelled"},
          m \in Latest(run_of[h], posts) :
         /\ run_status' = [run_status EXCEPT ![run_of[h]] = s]
         /\ last_agent_msg' = m
    /\ gets' = [gets EXCEPT ![h] = @ + 1]
    /\ pc' = [pc EXCEPT ![h] = "display"]
    /\ UNCHANGED <<sessVars, threads, nruns, last_error, thread_user_msgs,
                   thread_args,
                   run_of, elapsed, sleeps, cot_local, url_local, uiVars,
                   obsVars, faults>>

\* =========================================================================
\* A. Deep research: result renderer (_display_final_results)
\* =========================================================================

RECURSIVE Flatten(_)
Flatten(pairs) ==
    IF pairs = <<>> THEN <<>> ELSE Head(pairs) \o Flatten(Tail(pairs))

\* What lines 210-233 stream for final message m.
Rendering(m) ==
    IF m = NoMsg THEN << Tok("no_results", <<>>) >>
    ELSE (IF m.text # <<>>
          THEN << Tok("body", [i \in 1..Len(m.text) |-> m.text[i].body]) >>
          ELSE << Tok("no_content", <<>>) >>)
         \o (IF m.cites # <<>> /\ References(m.cites) # <<>>
             THEN << Tok("references", Flatten(References(m.cites))) >>
             ELSE <<>>)

\* on_message, lines 304-307 (and 309-310 when rendering raises):
\* _display_final_results, then the `finally` that calls _end_run.
Display(h) ==
    /\ Settled
    /\ UNCHANGED rtVars
    /\ pc[h] = "display"
    /\ \E fetchfail \in BOOLEAN, cut \in 0..2 :
         LET out == IF fetchfail THEN << Tok("retrieve_error", <<>>) >>
                    ELSE Rendering(last_agent_msg)
             nf == (IF fetchfail THEN 1 ELSE 0)
                   + (IF cut < Len(out) THEN 1 ELSE 0)
         IN  /\ cut <= Len(out)
             /\ faults + nf <= MaxFaults
             /\ faults' = faults + nf
             /\ results_panel' = [results_panel EXCEPT
                    ![h] = AddAll(@, SubSeq(out, 1, cut))]
             /\ IF cut = Len(out)
                THEN pc' = [pc EXCEPT ![h] = "done"]
                     /\ UNCHANGED status_panel
                ELSE ToExcept(h, status_panel[h])
    /\ EndRun(h)
    /\ UNCHANGED <<thread_id, emitted_cot_set, emitted_url_lines, vendVars,
                   run_of, pollVars, reply, saw_active, cot_again,
                   polled_cots, prior_cots>>

\* =========================================================================
\* B. Realtime session: transport and vendor
\* =========================================================================

\* connection.response.create reaches the vendor: a response starts, or
\* the vendor answers with an error event when one is in progress.
WireResponseCreate ==
    /\ since_create' = since_create + 1
    /\ IF vresp = None
       THEN /\ vresp' = nresp + 1
            /\ nresp' = nresp + 1
            /\ inbox' = inbox
            /\ req_open' = req_open \cup {nresp + 1}
       ELSE /\ inbox' = Append(inbox, Event("error", vresp, "", <<>>))
            /\ UNCHANGED <<vresp, nresp, req_open>>

\* connection.response.cancel reaches the vendor: the response in progress
\* ends with a response.done event, or the vendor answers with an error
\* event when there is none.
WireResponseCancel ==
    /\ cancels' = cancels + 1
    /\ since_create' = 0
    /\ vresp' = None
    /\ inbox' = Append(inbox, IF vresp # None
                              THEN Event("response.done", vresp, "", <<>>)
                              ELSE Event("error", None, "", <<>>))

\* The session has a connection that was not closed.
Open == connection # None /\ epc # "close"

\* Server-side voice activity detection (create_response: True,
\* interrupt_response: False): buffered user audio starts a response when
\* none is in progress.
VendorTurn ==
    /\ Open
    /\ heard
    /\ vresp = None
    /\ vresp' = nresp + 1
    /\ nresp' = nresp + 1
    /\ heard' = FALSE
    /\ UNCHANGED <<drVars, endVars, execVars, msgVars, reqVars,
                   connection, turnVars, pending_function_calls, mpc,
                   barged, arrival, ui_messages, interrupts, audio_sink, inbox,
                   cancels, appended, events, texts, tool_tasks, rtObsVars>>

\* The vendor streams one content event of the response in progress.
VendorEmit(types) ==
    /\ Open
    /\ vresp # None
    /\ events < MaxEvents
    /\ events' = events + 1
    /\ \E type \in types :
         \E call \in IF type \in {"response.function_call_arguments.delta",
                                 "response.function_call_arguments.done"}
                     THEN CallIds ELSE {""} :
           \E data \in CASE type = "response.function_call_arguments.delta"
                              -> Fragments
                         [] type = "response.function_call_arguments.done"
                              -> DoneArguments
                         [] OTHER -> { <<"a">> } :
             inbox' = Append(inbox, Event(type, vresp, call, data))
    /\ UNCHANGED <<drVars, endVars, execVars, msgVars, reqVars,
                   connection, turnVars, pending_function_calls, mpc,
                   barged, arrival, ui_messages, interrupts, audio_sink, vresp,
                   nresp, heard, cancels, appended, texts, tool_tasks,
                   rtObsVars>>

\* The vendor completes the response in progress.
VendorDone ==
    /\ Open
    /\ vresp # None
    /\ vresp' = None
    /\ inbox' = Append(inbox, Event("response.done", vresp, "", <<>>))
    /\ UNCHANGED <<drVars, endVars, execVars, msgVars, reqVars,
                   connection, turnVars, pending_function_calls, mpc,
                   barged, arrival, ui_messages, interrupts, audio_sink, nresp,
                   heard, cancels, appended, events, texts, tool_tasks,
                   rtObsVars>>

\* The vendor reports an error of the session that belongs to no response.
VendorError ==
    /\ Open
    /\ events < MaxEvents
    /\ events' = events + 1
    /\ inbox' = Append(inbox, Event("error", None, "", <<>>))
    /\ UNCHANGED <<drVars, endVars, execVars, msgVars, reqVars,
                   connection, turnVars, pending_function_calls, mpc,
                   barged, arrival, ui_messages, interrupts, audio_sink, vresp,
                   nresp, heard, cancels, appended, texts, tool_tasks,
                   rtObsVars>>

\* =========================================================================
\* B. Realtime session: user input handlers
\* =========================================================================

\* on_audio_start with no connection: _ensure_session_defaults finds every
\* TurnState key set (False and {} are not None) and leaves it as it is;
\* _setup_azure_realtime opens a new connection, whose vendor session has
\* no response, no buffered audio and no event waiting, and starts the
\* receive loop.
OnAudioStart ==
    /\ connection = None
    /\ connection' = 1
    /\ cm' = 1
    /\ recv_task' = "running"
    /\ inbox' = <<>>
    /\ vresp' = None
    /\ heard' = FALSE
    /\ appended' = 0
    /\ UNCHANGED <<drVars, epc, closes, stale, inflight, dead, escaped, task,
                   outputs, requests, ui_faults, msgVars, reqVars, turnVars,
                   pending_function_calls, mpc, barged, arrival, ui_messages,
                   interrupts, audio_sink, nresp, cancels, events, texts,
                   tool_tasks, rtObsVars>>

\* A variant of on_audio_chunk that barges in as on_message does.
OnAudioChunkBargeIn ==
    /\ connection # None
    /\ appended < MaxChunks
    /\ appended' = appended + 1
    /\ heard' = TRUE
    /\ chunk_in_turn' = (chunk_in_turn \/ is_generating \/ is_playing)
    /\ IF is_generating \/ is_playing
       THEN /\ WireResponseCancel
            /\ interrupts' = interrupts + 1
            /\ track_id' = track_id + 1
            /\ is_generating' = FALSE
            /\ is_playing' = FALSE
       ELSE UNCHANGED <<cancels, vresp, inbox, interrupts, track_id,
                        is_generating, is_playing, since_create>>
    /\ UNCHANGED <<drVars, endVars, execVars, msgVars, req_open, completions,
                   connection, text_stream_locked,
                   current_response_message, pending_function_calls, mpc,
                   barged, arrival, ui_messages, audio_sink, nresp, events,
                   texts, tool_tasks, fragments, handed, submitted, barge_ins>>

\* on_audio_chunk (lines 723-731): the chunk is appended to the vendor's
\* input audio buffer.
OnAudioChunk ==
    /\ connection # None
    /\ appended < MaxChunks
    /\ appended' = appended + 1
    /\ heard' = TRUE
    /\ chunk_in_turn' = (chunk_in_turn \/ is_generating \/ is_playing)
    /\ UNCHANGED <<drVars, endVars, execVars, msgVars, reqVars,
                   connection, turnVars, pending_function_calls, mpc,
                   barged, arrival, ui_messages, interrupts, audio_sink, inbox,
                   vresp, nresp, cancels, events, texts, tool_tasks, fragments,
                   handed, submitted, barge_ins>>

\* conversation.item.create of the user's text is issued (line 688); what
\* TurnState is at that moment, and what the invocation has done since it
\* was called, is recorded.
Submit(barge, at, gen, play, msg, track) ==
    submitted' = submitted \cup
        {[barge |-> barge,
          gen |-> gen,
          play |-> play,
          msg |-> msg,
          rotated |-> track # at.track,
          cancel |-> cancels > at.cancels,
          interrupt |-> interrupts > at.interrupts]}

\* on_message, lines 661-674 or 661-688: without a connection the user is
\* told to start the voice mode; with a response being generated or played
\* response.cancel is sent; otherwise the text is submitted.
OnMessageRT ==
    /\ mpc = "idle"
    /\ texts < MaxTexts
    /\ texts' = texts + 1
    /\ arrival' = [track |-> track_id, cancels |-> cancels,
                   interrupts |-> interrupts, resp |-> vresp]
    /\ IF connection = None
       THEN /\ barged' = FALSE
            /\ UNCHANGED <<mpc, cancels, vresp, inbox, submitted,
                           since_create>>
       ELSE IF is_generating \/ is_playing
       THEN /\ barged' = TRUE
            /\ mpc' = "cancel"
            /\ WireResponseCancel
            /\ UNCHANGED submitted
       ELSE /\ barged' = FALSE
            /\ mpc' = "item"
            /\ Submit(FALSE, arrival', is_generating, is_playing,
                      current_response_message, track_id)
            /\ UNCHANGED <<cancels, vresp, inbox, since_create>>
    /\ UNCHANGED <<drVars, endVars, execVars, msgVars, req_open, completions,
                   connection, turnVars, pending_function_calls,
                   ui_messages, interrupts, audio_sink, nresp, heard, appended,
                   events, tool_tasks, fragments, handed, barge_ins,
                   chunk_in_turn>>

\* Line 677: the cancel returned or raised; send_audio_interrupt is sent.
BargeInInterrupt ==
    /\ mpc = "cancel"
    /\ mpc' = "interrupt"
    /\ interrupts' = interrupts + 1
    /\ UNCHANGED <<drVars, endVars, execVars, msgVars, reqVars,
                   connection, turnVars, pending_function_calls,
                   barged, arrival, ui_messages, audio_sink, wireVars, texts,
                   tool_tasks, rtObsVars>>

\* Lines 678-688: a new track id, both flags cleared; an open agent message
\* is finalized (the invocation is suspended in its update), else the text
\* is submitted.
BargeInRotate ==
    /\ mpc = "interrupt"
    /\ track_id' = track_id + 1
    /\ is_generating' = FALSE
    /\ is_playing' = FALSE
    /\ barge_ins' = IF arrival.resp # None
                    THEN barge_ins \cup {[resp |-> arrival.resp,
                                          track |-> track_id + 1]}
                    ELSE barge_ins
    /\ IF current_response_message # None
       THEN /\ mpc' = "update"
            /\ agent_msgs' = Updated(agent_msgs, current_response_message)
            /\ UNCHANGED submitted
       ELSE /\ mpc' = "item"
            /\ Submit(barged, arrival, FALSE, FALSE, None, track_id + 1)
            /\ UNCHANGED agent_msgs
    /\ UNCHANGED <<drVars, endVars,
                   execVars, reqVars, rpc, current_user_message,
                   user_msgs, transcribing,
                   connection, text_stream_locked,
                   current_response_message, pending_function_calls, barged,
                   arrival, ui_messages, interrupts, audio_sink, wireVars,
                   texts, tool_tasks, fragments, handed, chunk_in_turn>>

\* Lines 685-688: the update returned; the handle is dropped and the text
\* is submitted.
BargeInFinalized ==
    /\ mpc = "update"
    /\ mpc' = "item"
    /\ current_response_message' = None
    /\ Submit(barged, arrival, is_generating, is_playing, None, track_id)
    /\ UNCHANGED <<drVars, endVars, execVars, msgVars, reqVars,
                   connection, is_generating, is_playing,
                   text_stream_locked, track_id, pending_function_calls,
                   barged, arrival, ui_messages, interrupts, audio_sink,
                   wireVars, texts, tool_tasks, fragments, handed, barge_ins,
                   chunk_in_turn>>

\* Line 697: the item was created; response.create is sent.
RequestResponse ==
    /\ mpc = "item"
    /\ mpc' = "create"
    /\ WireResponseCreate
    /\ UNCHANGED <<drVars, endVars, execVars, msgVars, completions,
                   connection, turnVars, pending_function_calls,
                   barged, arrival, ui_messages, interrupts, audio_sink, heard,
                   cancels, appended, events, texts, tool_tasks, rtObsVars>>

\* Line 706: response.create returned; is_generating is set.
MarkGenerating ==
    /\ mpc = "create"
    /\ mpc' = "idle"
    /\ is_generating' = TRUE
    /\ UNCHANGED <<drVars, endVars, execVars, msgVars, reqVars,
                   connection, is_playing, text_stream_locked,
                   track_id, current_response_message,
                   pending_function_calls, barged, arrival, ui_messages,
                   interrupts, audio_sink, wireVars, texts, tool_tasks,
                   rtObsVars>>

\* =========================================================================
\* B. Realtime session: the dispatcher (_receive_events_loop)
\* =========================================================================

\* The receive loop, while it has not returned, takes the next inbound
\* event of the given type.
Receives(type) ==
    /\ connection # None
    /\ recv_task = "running"
    /\ rpc = Idle
    /\ inbox # <<>>
    /\ Head(inbox).type = type
    /\ inbox' = Tail(inbox)

\* _stream_agent_text (lines 305-312) up to its first await: with no agent
\* message open one is created and its send() awaited, else the delta is
\* streamed to the open one.
StreamAgentText(delta) ==
    IF current_response_message = None
    THEN /\ ui_messages' = ui_messages + 1
         /\ agent_msgs' = Append(agent_msgs, NewMessage)
         /\ rpc' = [at |-> "send", msg |-> ui_messages + 1, delta |-> delta]
    ELSE /\ agent_msgs' =
                Streamed(agent_msgs, current_response_message, delta)
         /\ UNCHANGED <<ui_messages, rpc>>

\* What no handler of agent text touches.
TextFrame ==
    UNCHANGED <<drVars, endVars,
                execVars, reqVars, current_user_message, user_msgs,
                transcribing, connection, is_generating, is_playing, track_id,
                pending_function_calls, mpc, barged, arrival, interrupts,
                audio_sink, vresp, nresp, heard, cancels, appended, events,
                texts, tool_tasks, rtObsVars>>

\* _handle_agent_text_delta, for a non-empty delta
HandleAgentTextDelta ==
    /\ Receives("response.text.delta")
    /\ text_stream_locked' = TRUE
    /\ StreamAgentText(Token("text", Head(inbox).resp))
    /\ UNCHANGED current_response_message
    /\ TextFrame

\* `if not cl.user_session.get(KEY_TEXT_STREAM_LOCKED)` (line 300)
TranscriptShown(locked) == ~locked

\* _handle_agent_audio_transcript_delta, for a non-empty delta
HandleAgentAudioTranscriptDelta ==
    /\ Receives("response.audio_transcript.delta")
    /\ IF TranscriptShown(text_stream_locked)
       THEN StreamAgentText(Token("transcript", Head(inbox).resp))
       ELSE UNCHANGED <<ui_messages, agent_msgs, rpc>>
    /\ UNCHANGED <<text_stream_locked, current_response_message>>
    /\ TextFrame

\* Lines 311-312: send() returned; the new message becomes the session's
\* current_response_message and the delta is streamed to it.
AgentMessageSent ==
    /\ rpc.at = "send"
    /\ rpc' = Idle
    /\ current_response_message' = rpc.msg
    /\ agent_msgs' = Streamed(agent_msgs, rpc.msg, rpc.delta)
    /\ UNCHANGED <<text_stream_locked, ui_messages, inbox>>
    /\ TextFrame

\* `if current_msg is not None: await current_msg.update()` (lines 317-319,
\* 518-520, 530-532): the handler is suspended in the update of the open
\* agent message.
FinalizeAgent(at) ==
    IF current_response_message # None
    THEN /\ agent_msgs' = Updated(agent_msgs, current_response_message)
         /\ rpc' = [Idle EXCEPT !.at = at,
                                !.msg = current_response_message]
    ELSE UNCHANGED <<agent_msgs, rpc>>

\* _finalize_agent_message, called for response.text.done and
\* response.audio_transcript.done
FinalizeAgentMessage ==
    /\ \E type \in {"response.text.done", "response.audio_transcript.done"} :
         Receives(type)
    /\ FinalizeAgent("update")
    /\ UNCHANGED <<text_stream_locked, ui_messages,
                   current_response_message>>
    /\ TextFrame

\* Lines 320 and 521: update() returned; current_response_message is set
\* to None.
AgentMessageUpdated ==
    /\ rpc.at = "update"
    /\ rpc' = Idle
    /\ current_response_message' = None
    /\ UNCHANGED <<text_stream_locked, ui_messages, agent_msgs, inbox>>
    /\ TextFrame

\* _handle_agent_audio_delta, for a non-empty delta: the chunk goes to the
\* audio sink on the track _get_track_id() returns now.
HandleAgentAudioDelta ==
    /\ Receives("response.audio.delta")
    /\ is_playing' = TRUE
    /\ audio_sink' = audio_sink \cup
           {[resp |-> Head(inbox).resp, track |-> track_id]}
    /\ UNCHANGED <<drVars, endVars, execVars, msgVars, reqVars,
                   connection, is_generating, text_stream_locked,
                   track_id, current_response_message,
                   pending_function_calls, mpc, barged, arrival, ui_messages,
                   interrupts, vresp, nresp, heard, cancels, appended, events,
                   texts, tool_tasks, rtObsVars>>

\* _handle_function_call_arguments_delta
HandleFunctionCallArgumentsDelta ==
    /\ Receives("response.function_call_arguments.delta")
    /\ LET e == Head(inbox)
           entry == IF pending_function_calls[e.call].present
                    THEN pending_function_calls[e.call]
                    ELSE [present |-> TRUE, arguments |-> <<>>]
       IN  /\ pending_function_calls' =
                  [pending_function_calls EXCEPT ![e.call] =
                      [entry EXCEPT !.arguments = @ \o e.data]]
           /\ fragments' = [fragments EXCEPT ![e.call] = Append(@, e.data)]
    /\ UNCHANGED <<drVars, endVars, execVars, msgVars, reqVars,
                   connection, turnVars, mpc, barged, arrival,
                   ui_messages, interrupts, audio_sink, vresp, nresp, heard,
                   cancels, appended, events, texts, tool_tasks, handed,
                   submitted, barge_ins, chunk_in_turn>>

\* A variant that hands over the call's accumulated buffer.
BufferedArguments(event_arguments, buffer) == buffer

\* A variant of _handle_function_call_arguments_done that awaits the tool
\* task it creates: the receive loop is suspended in the handler.
HandleFunctionCallArgumentsDoneAwaited ==
    /\ Receives("response.function_call_arguments.done")
    /\ recv_task' = "awaiting"
    /\ LET e == Head(inbox)
       IN  /\ tool_tasks' = tool_tasks \cup
                  {[call_id |-> e.call, arguments |-> e.data]}
           /\ handed' = handed \cup
                  {[call_id |-> e.call, arguments |-> e.data,
                    event |-> e.data, deltas |-> fragments[e.call]]}
           /\ pending_function_calls' =
                  [pending_function_calls EXCEPT ![e.call] = NoCall]
           /\ fragments' = [fragments EXCEPT ![e.call] = <<>>]
    /\ UNCHANGED <<drVars, endVars, task, outputs, requests, ui_faults, msgVars,
                   reqVars, connection, turnVars, mpc, barged, arrival,
                   ui_messages, interrupts,
                   audio_sink, vresp, nresp, heard, cancels, appended, events,
                   texts, submitted, barge_ins, chunk_in_turn>>

\* A variant of _handle_function_call_arguments_done that keeps the call's
\* pending entry.
HandleFunctionCallArgumentsDoneKept ==
    /\ Receives("response.function_call_arguments.done")
    /\ LET e == Head(inbox)
       IN  /\ tool_tasks' = tool_tasks \cup
                  {[call_id |-> e.call, arguments |-> e.data]}
           /\ handed' = handed \cup
                  {[call_id |-> e.call, arguments |-> e.data,
                    event |-> e.data, deltas |-> fragments[e.call]]}
           /\ fragments' = [fragments EXCEPT ![e.call] = <<>>]
    /\ UNCHANGED <<drVars, endVars,
                   execVars, msgVars, reqVars, connection, turnVars,
                   pending_function_calls, mpc, barged, arrival, ui_messages,
                   interrupts, audio_sink, vresp, nresp, heard, cancels,
                   appended, events, texts, submitted, barge_ins,
                   chunk_in_turn>>

\* The `arguments` that _handle_function_call_arguments_done passes to
\* _execute_function_call_async (lines 395 and 406).
HandedArguments(event_arguments, buffer) == event_arguments

\* _handle_function_call_arguments_done: the tool task is created and the
\* call's pending entry deleted.
HandleFunctionCallArgumentsDone ==
    /\ Receives("response.function_call_arguments.done")
    /\ LET e == Head(inbox)
           arguments == HandedArguments(
                            e.data, pending_function_calls[e.call].arguments)
       IN  /\ tool_tasks' = tool_tasks \cup
                  {[call_id |-> e.call, arguments |-> arguments]}
           /\ handed' = handed \cup
                  {[call_id |-> e.call, arguments |-> arguments,
                    event |-> e.data, deltas |-> fragments[e.call]]}
           /\ pending_function_calls' =
                  [pending_function_calls EXCEPT ![e.call] = NoCall]
           /\ fragments' = [fragments EXCEPT ![e.call] = <<>>]
    /\ UNCHANGED <<drVars, endVars, execVars, msgVars, reqVars,
                   connection, turnVars, mpc, barged, arrival,
                   ui_messages, interrupts, audio_sink, vresp, nresp, heard,
                   cancels, appended, events, texts, submitted, barge_ins,
                   chunk_in_turn>>

\* A response.done or error event is handled: noted for the properties.
NoteEnded(resp) ==
    /\ since_create' = 0
    /\ req_open' = req_open \ {resp}
    /\ completions' = {}

\* What neither _handle_response_done nor _handle_error_event touches.
EndFrame ==
    UNCHANGED <<drVars, endVars, execVars, transcribing, connection, track_id,
                pending_function_calls, mpc, barged, arrival, ui_messages,
                interrupts, audio_sink, vresp, nresp, heard, cancels,
                appended, events, texts, tool_tasks, rtObsVars>>

\* A variant of _handle_response_done that leaves is_playing as it is.
HandleResponseDoneStillPlaying ==
    /\ Receives("response.done")
    /\ is_generating' = FALSE
    /\ text_stream_locked' = FALSE
    /\ FinalizeAgent("update")
    /\ NoteEnded(Head(inbox).resp)
    /\ UNCHANGED <<is_playing, current_response_message,
                   current_user_message, user_msgs>>
    /\ EndFrame

\* _handle_response_done (lines 512-520): the three flags are cleared and
\* an open agent message is updated.
HandleResponseDone ==
    /\ Receives("response.done")
    /\ is_generating' = FALSE
    /\ is_playing' = FALSE
    /\ text_stream_locked' = FALSE
    /\ FinalizeAgent("update")
    /\ NoteEnded(Head(inbox).resp)
    /\ UNCHANGED <<current_response_message, current_user_message,
                   user_msgs>>
    /\ EndFrame

\* `if current_user_msg is not None: await current_user_msg.update()`
\* (lines 362, 370, 536-537): the handler is suspended in the update of the
\* open user message.
FinalizeUser(at) ==
    IF current_user_message # None
    THEN /\ user_msgs' = Updated(user_msgs, current_user_message)
         /\ rpc' = [Idle EXCEPT !.at = at, !.msg = current_user_message]
    ELSE /\ rpc' = Idle
         /\ UNCHANGED user_msgs

\* A variant of _handle_error_event that clears is_playing as well.
HandleErrorEventStopsPlaying ==
    /\ Receives("error")
    /\ is_generating' = FALSE
    /\ is_playing' = FALSE
    /\ text_stream_locked' = FALSE
    /\ IF current_response_message # None
       THEN FinalizeAgent("error") /\ UNCHANGED user_msgs
       ELSE FinalizeUser("error_user") /\ UNCHANGED agent_msgs
    /\ NoteEnded(Head(inbox).resp)
    /\ UNCHANGED <<current_response_message, current_user_message>>
    /\ EndFrame

\* _handle_error_event (lines 524-537): is_generating and the lock are
\* cleared, the error is logged, and an open agent message, or else an
\* open user message, is updated.
HandleErrorEvent ==
    /\ Receives("error")
    /\ is_generating' = FALSE
    /\ text_stream_locked' = FALSE
    /\ IF current_response_message # None
       THEN FinalizeAgent("error") /\ UNCHANGED user_msgs
       ELSE FinalizeUser("error_user") /\ UNCHANGED agent_msgs
    /\ NoteEnded(Head(inbox).resp)
    /\ UNCHANGED <<is_playing, current_response_message,
                   current_user_message>>
    /\ EndFrame

\* Lines 533-537 of _handle_error_event: the agent message's update()
\* returned; current_response_message is set to None and an open user
\* message is updated.
ErrorAgentUpdated ==
    /\ rpc.at = "error"
    /\ current_response_message' = None
    /\ FinalizeUser("error_user")
    /\ UNCHANGED <<is_generating, is_playing, text_stream_locked, agent_msgs,
                   current_user_message, inbox, reqVars>>
    /\ EndFrame

\* Lines 363, 371 and 538: the user message's update() returned;
\* current_user_message is set to None.
UserMessageUpdated ==
    /\ rpc.at \in {"user_update", "error_user"}
    /\ rpc' = Idle
    /\ current_user_message' = None
    /\ UNCHANGED <<is_generating, is_playing, text_stream_locked, agent_msgs,
                   current_response_message, user_msgs, inbox, reqVars>>
    /\ EndFrame

\* str.strip() on the strings of the model, whose only whitespace is " "
RECURSIVE StripText(_)
StripText(s) ==
    IF s = <<>> THEN <<>>
    ELSE IF Head(s) = " " THEN StripText(Tail(s))
    ELSE IF s[Len(s)] = " " THEN StripText(SubSeq(s, 1, Len(s) - 1))
    ELSE s

\* The `transcript` of a completed event: empty, blank, or text.
FinalTexts == { <<>>, <<" ">>, <<"a">> }

\* The vendor transcribes the user's speech: per utterance, in order,
\* deltas and then one completed or failed event.
VendorTranscribes ==
    /\ Open
    /\ appended > 0
    /\ events < MaxEvents
    /\ events' = events + 1
    /\ transcribing.open \/ transcribing.n < MaxUtterances
    /\ LET utt == IF transcribing.open THEN transcribing.n
                  ELSE transcribing.n + 1
       IN  \/ /\ inbox' = Append(inbox,
                     Event(UserDelta,
                           utt, "", <<"a">>))
              /\ transcribing' = [n |-> utt, open |-> TRUE]
           \/ /\ \E final \in FinalTexts :
                   inbox' = Append(inbox,
                     Event(UserCompleted,
                           utt, "", final))
              /\ transcribing' = [n |-> utt, open |-> FALSE]
           \/ /\ inbox' = Append(inbox,
                     Event(UserFailed,
                           utt, "", <<>>))
              /\ transcribing' = [n |-> utt, open |-> FALSE]
    /\ UNCHANGED <<drVars, endVars,
                   execVars, reqVars, rpc, current_user_message,
                   agent_msgs, user_msgs, connection, turnVars,
                   pending_function_calls, mpc, barged, arrival, ui_messages,
                   interrupts, audio_sink, vresp, nresp, heard, cancels,
                   appended, texts, tool_tasks, rtObsVars>>

\* What no handler of the user's transcription touches.
UserFrame ==
    UNCHANGED <<drVars, endVars, execVars, reqVars, agent_msgs, transcribing,
                connection, turnVars, pending_function_calls, mpc, barged,
                arrival, ui_messages, interrupts, audio_sink, vresp, nresp,
                heard, cancels, appended, events, texts, tool_tasks,
                rtObsVars>>

\* _handle_user_transcription_delta (lines 340-348), for a non-empty
\* delta: with no user message open one is created and its send() awaited,
\* else the delta is streamed to the open one.
HandleUserTranscriptionDelta ==
    /\ Receives(UserDelta)
    /\ LET delta == Token("delta", Head(inbox).resp)
       IN  IF current_user_message = None
           THEN /\ user_msgs' = Append(user_msgs, NewMessage)
                /\ rpc' = [at |-> "user_send", msg |-> Len(user_msgs) + 1,
                           delta |-> delta]
           ELSE /\ user_msgs' =
                       Streamed(user_msgs, current_user_message, delta)
                /\ UNCHANGED rpc
    /\ UNCHANGED current_user_message
    /\ UserFrame

\* Lines 347-348: send() returned; the new message becomes the session's
\* current_user_message and the delta is streamed to it.
UserMessageSent ==
    /\ rpc.at = "user_send"
    /\ rpc' = Idle
    /\ current_user_message' = rpc.msg
    /\ user_msgs' = Streamed(user_msgs, rpc.msg, rpc.delta)
    /\ UNCHANGED inbox
    /\ UserFrame

\* `isinstance(final_text, str) and final_text.strip()` (line 355)
ShowsFinal(final_text) == StripText(final_text) # <<>>

\* _handle_user_transcription_completed (lines 351-363): an open user
\* message is updated; with none open, a final text that is not blank is
\* sent as a message of its own.
HandleUserTranscriptionCompleted ==
    /\ Receives(UserCompleted)
    /\ IF current_user_message = None
       THEN /\ user_msgs' =
                   IF ShowsFinal(Head(inbox).data)
                   THEN Append(user_msgs,
                            [NewMessage EXCEPT !.content =
                                << Token("final", Head(inbox).resp) >>])
                   ELSE user_msgs
            /\ UNCHANGED rpc
       ELSE FinalizeUser("user_update")
    /\ UNCHANGED current_user_message
    /\ UserFrame

\* _handle_user_transcription_failed (lines 366-371): an open user message
\* is updated.
HandleUserTranscriptionFailed ==
    /\ Receives(UserFailed)
    /\ FinalizeUser("user_update")
    /\ UNCHANGED current_user_message
    /\ UserFrame

\* =========================================================================
\* B. Realtime session: tool execution
\* =========================================================================

\* json.loads on the strings of the model: "ab" is a JSON object, "ba" a
\* JSON value that is not an object, every other string does not parse.
JsonLoads(s) ==
    IF s = <<"a", "b">> THEN "object"
    ELSE IF s = <<"b", "a">> THEN "value"
    ELSE "invalid"

ToolNames == {"get_weather", "search_database"}

\* A variant that answers for a function it does not know.
ExecuteAnyFunction(name, arguments, tool_raises) ==
    IF JsonLoads(arguments) = "invalid" THEN Payload("json")
    ELSE IF JsonLoads(arguments) # "object" THEN Payload("args")
    ELSE IF tool_raises THEN Payload("tool")
    ELSE Payload("")

\* _execute_function_call (lines 194-225): the JSON string it returns.
\* json.loads raising, args.get raising on a value that is no object and
\* the tool raising are all caught by its `except Exception`.
ExecuteFunctionCall(name, arguments, tool_raises) ==
    IF JsonLoads(arguments) = "invalid" THEN Payload("json")
    ELSE IF name \in ToolNames
    THEN IF JsonLoads(arguments) # "object" THEN Payload("args")
         ELSE IF tool_raises THEN Payload("tool")
         ELSE Payload("")
    ELSE Payload("unknown")

\* The tool's body is entered: the arguments parsed to an object and the
\* name is a tool's.
ToolCalled(name, arguments) ==
    name \in ToolNames /\ JsonLoads(arguments) = "object"

\* `if "error" in result_dict` (line 449)
HasError(result) == result.error # ""

\* A variant that requests a response whatever the flag says.
RequestsAlways(generating) == TRUE

\* `if not cl.user_session.get(KEY_IS_GENERATING)` (lines 478 and 507)
RequestsResponse(generating) == ~generating

\* Whether the await a step resumes from raised; raising is budgeted.
Raises == {x \in BOOLEAN : x => ui_faults < MaxUiFaults}

\* What no step of a tool task touches.
TaskFrame ==
    UNCHANGED <<drVars, endVars,
                connection, is_playing, text_stream_locked, track_id,
                current_response_message, pending_function_calls, mpc,
                barged, arrival, ui_messages, interrupts, audio_sink, heard,
                cancels, appended, events, texts, tool_tasks, rtObsVars,
                recv_task, msgVars>>

\* The task of call c holds a connection that cm.__aexit__ closed before
\* the task issued the transport request it is suspended in: the request
\* raises (the websocket is closed).
Doomed(c) == c \in stale /\ c \notin inflight

\* Whether a transport request of the task of call c raised.
SendRaises(c) == IF Doomed(c) THEN {TRUE} ELSE Raises

\* The request `op` of the task of call c returned or raised.
Sent(c, op, raised) ==
    /\ ui_faults' = IF raised /\ ~Doomed(c) THEN ui_faults + 1 ELSE ui_faults
    /\ inflight' = inflight \ {c}
    /\ dead' = IF Doomed(c) THEN dead \cup {[call_id |-> c, op |-> op]}
               ELSE dead

\* What no step of a tool task that resumes from a transport request
\* touches.
SendFrame ==
    UNCHANGED <<drVars, cm, epc, closes, stale, escaped, connection, is_playing,
                text_stream_locked, track_id, current_response_message,
                pending_function_calls, mpc, barged, arrival, ui_messages,
                interrupts, audio_sink, heard, cancels, appended, events,
                texts, tool_tasks, rtObsVars, recv_task, msgVars>>

\* The vendor's response in progress calls a function: one arguments-done
\* event per call id.
VendorCalls ==
    /\ Open
    /\ vresp # None
    /\ events < MaxEvents
    /\ events' = events + 1
    /\ \E c \in CallIds : \E data \in DoneArguments :
         /\ task[c].pc = "none"
         /\ \A t \in tool_tasks : t.call_id # c
         /\ \A i \in 1..Len(inbox) : inbox[i].call # c
         /\ inbox' = Append(inbox,
                Event("response.function_call_arguments.done", vresp, c,
                      data))
    /\ UNCHANGED <<drVars, endVars,
                   execVars, msgVars, reqVars, connection, turnVars,
                   pending_function_calls, mpc, barged, arrival, ui_messages,
                   interrupts, audio_sink, vresp, nresp, heard, cancels,
                   appended, texts, tool_tasks, rtObsVars>>

\* The task asyncio.create_task made (line 406) gets to run: lines 426-427,
\* up to `await step.send()`.
TaskStart(c) ==
    /\ task[c].pc = "none"
    /\ \E t \in tool_tasks :
         /\ t.call_id = c
         /\ task' = [task EXCEPT ![c] = [NoTask EXCEPT
                        !.pc = "send", !.arguments = t.arguments]]
    /\ TaskFrame
    /\ UNCHANGED <<is_generating, inbox, vresp, nresp, outputs, requests,
                   ui_faults, reqVars>>

\* Lines 491-494: the `except Exception` of the task marks the step as an
\* error and is suspended in step.update.
TaskExcept(c) ==
    task' = [task EXCEPT ![c].pc = "xupdate", ![c].is_error = TRUE]

\* Lines 427-438: step.send returned and the arguments are shown, or it
\* raised, outside the try, and the exception ends the task.
TaskSent(c) ==
    /\ task[c].pc = "send"
    /\ \E raised \in Raises :
         /\ ui_faults' = IF raised THEN ui_faults + 1 ELSE ui_faults
         /\ task' = [task EXCEPT ![c].pc =
                        IF raised THEN "raised" ELSE "update1"]
    /\ TaskFrame
    /\ UNCHANGED <<is_generating, inbox, vresp, nresp, outputs, requests,
                   reqVars>>

\* Lines 438-442: the first step.update returned and _execute_function_call
\* is awaited, or it raised.
TaskInputShown(c) ==
    /\ task[c].pc = "update1"
    /\ \E raised \in Raises :
         /\ ui_faults' = IF raised THEN ui_faults + 1 ELSE ui_faults
         /\ IF raised THEN TaskExcept(c)
            ELSE task' = [task EXCEPT ![c].pc = "exec"]
    /\ TaskFrame
    /\ UNCHANGED <<is_generating, inbox, vresp, nresp, outputs, requests,
                   reqVars>>

\* Lines 442-465: _execute_function_call returned `result`; the step shows
\* it, marked as an error when it has an "error" member.
TaskExecuted(c) ==
    /\ task[c].pc = "exec"
    /\ \E tool_raises \in
           IF ToolCalled(FunctionName[c], task[c].arguments)
           THEN BOOLEAN ELSE {FALSE} :
         LET result == ExecuteFunctionCall(FunctionName[c],
                                           task[c].arguments, tool_raises)
         IN  task' = [task EXCEPT ![c].pc = "update2",
                                  ![c].result = result,
                                  ![c].is_error = HasError(result)]
    /\ TaskFrame
    /\ UNCHANGED <<is_generating, inbox, vresp, nresp, outputs, requests,
                   ui_faults, reqVars>>

\* Lines 465-475: the second step.update returned and the result is sent as
\* a function_call_output item, or it raised.
TaskResultShown(c) ==
    /\ task[c].pc = "update2"
    /\ \E raised \in Raises :
         /\ ui_faults' = IF raised THEN ui_faults + 1 ELSE ui_faults
         /\ IF raised THEN TaskExcept(c)
            ELSE task' = [task EXCEPT ![c].pc = "item"]
    /\ TaskFrame
    /\ UNCHANGED <<is_generating, inbox, vresp, nresp, outputs, requests,
                   reqVars>>

\* A variant that tests the flag and leaves it as it is.
DecideUnset(c, create) ==
    /\ completions' = completions \cup
           {[call_id |-> c, asked |-> RequestsResponse(is_generating),
             track |-> track_id]}
    /\ task' = [task EXCEPT ![c].pc =
                   IF RequestsResponse(is_generating) THEN create ELSE "done"]
    /\ UNCHANGED is_generating

\* Lines 477-479 and 507-508: after the item is sent, the flag is tested
\* and set without an await in between; the task is then suspended in
\* response.create, or it is finished.
Decide(c, create) ==
    /\ completions' = completions \cup
           {[call_id |-> c, asked |-> RequestsResponse(is_generating),
             track |-> track_id]}
    /\ IF RequestsResponse(is_generating)
       THEN /\ is_generating' = TRUE
            /\ task' = [task EXCEPT ![c].pc = create]
       ELSE /\ task' = [task EXCEPT ![c].pc = "done"]
            /\ UNCHANGED is_generating

\* Lines 468-489: conversation.item.create returned, the item carrying
\* `result` is in the conversation; or it raised.
TaskFed(c) ==
    /\ task[c].pc = "item"
    /\ \E raised \in SendRaises(c) :
         /\ Sent(c, "conversation.item.create", raised)
         /\ IF raised
            THEN /\ TaskExcept(c)
                 /\ UNCHANGED <<outputs, is_generating, completions>>
            ELSE /\ outputs' = [outputs EXCEPT
                        ![c] = Append(@, task[c].result)]
                 /\ Decide(c, "create")
    /\ SendFrame
    /\ UNCHANGED <<inbox, vresp, nresp, requests, since_create, req_open>>

\* Lines 482-489: response.create returned, the request reached the
\* vendor; or it raised.
TaskRequested(c) ==
    /\ task[c].pc = "create"
    /\ \E raised \in SendRaises(c) :
         /\ Sent(c, "response.create", raised)
         /\ IF raised
            THEN /\ TaskExcept(c)
                 /\ UNCHANGED <<inbox, vresp, nresp, requests,
                                since_create, req_open>>
            ELSE /\ task' = [task EXCEPT ![c].pc = "done"]
                 /\ requests' = [requests EXCEPT ![c] = @ + 1]
                 /\ IF c \in stale
                    THEN \* it reached the vendor before the close
                         UNCHANGED <<inbox, vresp, nresp, since_create,
                                     req_open>>
                    ELSE WireResponseCreate
    /\ SendFrame
    /\ UNCHANGED <<is_generating, outputs, completions>>

\* Lines 494-505: in the except handler step.update returned and the error
\* is sent as a function_call_output item; or it raised and the exception
\* ends the task.
TaskErrorShown(c) ==
    /\ task[c].pc = "xupdate"
    /\ \E raised \in Raises :
         /\ ui_faults' = IF raised THEN ui_faults + 1 ELSE ui_faults
         /\ task' = [task EXCEPT ![c].pc =
                        IF raised THEN "raised" ELSE "xitem"]
    /\ TaskFrame
    /\ UNCHANGED <<is_generating, inbox, vresp, nresp, outputs, requests,
                   reqVars>>

\* Lines 499-509: in the except handler conversation.item.create returned,
\* the item carrying {"error": str(e)} is in the conversation; or it raised.
TaskErrorFed(c) ==
    /\ task[c].pc = "xitem"
    /\ \E raised \in SendRaises(c) :
         /\ Sent(c, "conversation.item.create", raised)
         /\ IF raised
            THEN /\ task' = [task EXCEPT ![c].pc = "raised"]
                 /\ UNCHANGED <<outputs, is_generating, completions>>
            ELSE /\ outputs' = [outputs EXCEPT
                        ![c] = Append(@, Payload("exception"))]
                 /\ Decide(c, "xcreate")
    /\ SendFrame
    /\ UNCHANGED <<inbox, vresp, nresp, requests, since_create, req_open>>

\* Line 509: in the except handler response.create returned; or it raised.
TaskErrorRequested(c) ==
    /\ task[c].pc = "xcreate"
    /\ \E raised \in SendRaises(c) :
         /\ Sent(c, "response.create", raised)
         /\ IF raised
            THEN /\ task' = [task EXCEPT ![c].pc = "raised"]
                 /\ UNCHANGED <<inbox, vresp, nresp, requests,
                                since_create, req_open>>
            ELSE /\ task' = [task EXCEPT ![c].pc = "done"]
                 /\ requests' = [requests EXCEPT ![c] = @ + 1]
                 /\ IF c \in stale
                    THEN \* it reached the vendor before the close
                         UNCHANGED <<inbox, vresp, nresp, since_create,
                                     req_open>>
                    ELSE WireResponseCreate
    /\ SendFrame
    /\ UNCHANGED <<is_generating, outputs, completions>>

\* A handler's UI call raises: the exception leaves the `async for` of
\* _receive_events_loop, is logged (lines 287-288), and the loop returns.
\* What the handler did before the call stays done.
HandlerRaises ==
    /\ Receives(Head(inbox).type)
    /\ ui_faults < MaxUiFaults
    /\ ui_faults' = ui_faults + 1
    /\ recv_task' = "ended"
    /\ LET type == Head(inbox).type
       IN  CASE type = "response.text.delta" ->
                  \* current_msg.send or stream_token (lines 309-312)
                  /\ text_stream_locked' = TRUE
                  /\ UNCHANGED <<is_generating, is_playing>>
             [] type = "response.audio.delta" ->
                  \* send_audio_chunk (line 331)
                  /\ is_playing' = TRUE
                  /\ UNCHANGED <<is_generating, text_stream_locked>>
             [] type = "response.done" ->
                  \* current_msg.update (line 520)
                  /\ current_response_message # None
                  /\ is_generating' = FALSE
                  /\ is_playing' = FALSE
                  /\ text_stream_locked' = FALSE
             [] type = "error" ->
                  \* current_msg.update (line 532)
                  /\ current_response_message # None
                  /\ is_generating' = FALSE
                  /\ text_stream_locked' = FALSE
                  /\ UNCHANGED is_playing
             [] OTHER -> FALSE
    /\ IF Head(inbox).type \in {"response.done", "error"}
       THEN NoteEnded(Head(inbox).resp)
       ELSE UNCHANGED reqVars
    /\ UNCHANGED <<drVars, endVars, msgVars, connection, track_id,
                   current_response_message,
                   pending_function_calls, mpc, barged, arrival, ui_messages,
                   interrupts, audio_sink, vresp, nresp, heard, cancels,
                   appended, events, texts, tool_tasks, rtObsVars, task,
                   outputs, requests>>

\* =========================================================================
\* B. Realtime session: teardown (on_chat_end / on_stop)
\* =========================================================================

\* A variant of the receive loop without its `except asyncio.CancelledError`.
LoopCatchesErrors(exc) == exc = "Exception"

\* The except clauses of _receive_events_loop (lines 285-288).
LoopCatches(exc) == exc \in {"CancelledError", "Exception"}

\* `except Exception` of on_chat_end (lines 749 and 756): CancelledError is
\* a BaseException and passes it.
EndCatches(exc) == exc = "Exception"

\* What `await recv_task` gives for the task that was cancelled: the task
\* returned if its loop caught the CancelledError, else it is cancelled and
\* the await raises CancelledError.
Joined == IF LoopCatches("CancelledError") THEN "returned"
          ELSE "CancelledError"

\* What no step of on_chat_end touches.
ChatEndFrame ==
    UNCHANGED <<drVars, is_generating, is_playing, text_stream_locked,
                track_id, pending_function_calls, mpc, barged, arrival,
                ui_messages, interrupts, audio_sink, wireVars, texts,
                tool_tasks, rtObsVars, task, outputs, requests, agent_msgs,
                user_msgs, transcribing, reqVars, dead>>

\* Line 755: cm.__aexit__ is awaited; the connection is closed.  The tool
\* tasks that have not finished hold it; those suspended in a transport
\* request issued that request before the close.
Close ==
    LET held == {c \in CallIds :
                    /\ \E t \in tool_tasks : t.call_id = c
                    /\ task[c].pc \notin {"done", "raised"}
                    /\ c \notin stale}
    IN  /\ closes' = closes + 1
        /\ stale' = stale \cup held
        /\ inflight' = inflight \cup
               {c \in held : task[c].pc \in {"item", "create", "xitem",
                                              "xcreate"}}
        /\ epc' = "close"

\* Lines 759-763
Nulls ==
    /\ connection' = None
    /\ cm' = None
    /\ recv_task' = "none"
    /\ current_response_message' = None
    /\ current_user_message' = None
    /\ epc' = "idle"

\* An exception leaves on_chat_end; the statements after it are skipped.
Escapes ==
    /\ escaped' = TRUE
    /\ epc' = "idle"

\* on_chat_end, lines 744-748: a receive task that is not done is cancelled
\* and awaited; the CancelledError is thrown into the loop at the await it
\* is suspended in, also when that is an await of a handler.  With no such
\* task the connection manager is closed (lines 752-755), and with no
\* manager the session keys are set to None.
OnChatEnd ==
    /\ epc = "idle"
    /\ cm # None => closes < MaxCloses
    /\ IF recv_task = "running"
       THEN /\ recv_task' = "ended"
            /\ rpc' = Idle
            /\ epc' = "join"
            /\ UNCHANGED <<connection, cm, current_response_message,
                           current_user_message, closes, stale, inflight>>
       ELSE IF cm # None
       THEN /\ Close
            /\ UNCHANGED <<connection, cm, recv_task, rpc,
                           current_response_message, current_user_message>>
       ELSE /\ Nulls
            /\ UNCHANGED <<rpc, closes, stale, inflight>>
    /\ UNCHANGED <<ui_faults, escaped>>
    /\ ChatEndFrame

\* Lines 748-755: `await recv_task` returned or raised; the connection
\* manager is closed.
ChatEndJoined ==
    /\ epc = "join"
    /\ IF Joined # "returned" /\ ~EndCatches(Joined)
       THEN /\ Escapes
            /\ UNCHANGED <<connection, cm, recv_task,
                           current_response_message, current_user_message,
                           closes, stale, inflight>>
       ELSE IF cm # None
       THEN /\ Close
            /\ UNCHANGED <<connection, cm, recv_task,
                           current_response_message, current_user_message,
                           escaped>>
       ELSE /\ Nulls
            /\ UNCHANGED <<closes, stale, inflight, escaped>>
    /\ UNCHANGED <<ui_faults, rpc>>
    /\ ChatEndFrame

\* Lines 755-763: cm.__aexit__ returned or raised; the session keys are
\* set to None.
ChatEndClosed ==
    /\ epc = "close"
    /\ \E raised \in Raises :
         /\ ui_faults' = IF raised THEN ui_faults + 1 ELSE ui_faults
         /\ IF raised /\ ~EndCatches("Exception")
            THEN /\ Escapes
                 /\ UNCHANGED <<connection, cm, recv_task,
                                current_response_message,
                                current_user_message>>
            ELSE /\ Nulls
                 /\ UNCHANGED escaped
    /\ UNCHANGED <<rpc, closes, stale, inflight>>
    /\ ChatEndFrame

vars == <<drVars, rtVars>>

Init == InitDR /\ InitRT

\* The deep-research session under concurrent user messages: up to MaxMsgs
\* messages arrive at any time and their handlers interleave at their
\* awaits.  The vendor posts no agent message and no iteration is slow.
NextDR ==
    \E h \in Handlers :
        \/ OnMessage(h)
        \/ StartResearch(h)
        \/ WarnSent(h)
        \/ StartFailed(h)
        \/ PollFetchError(h, {0})
        \/ PollInProgress(h, {}, {0})
        \/ PollFailed(h)
        \/ PollTerminal(h, {})
        \/ Display(h)
        \/ ExceptEnd(h)
        \/ Return(h)

SpecDR == Init /\ [][NextDR]_vars

\* The agent message the vendor posts for the run of invocation h: each
\* run cites a source of its own.
CitePosts(h) ==
    { [text |-> TxtPlain,
       cites |-> << IF h = 2 THEN Cite("u1", "t1") ELSE Cite("u2", "t2") >>] }

\* Concurrent user messages as in NextDR, with a vendor that posts agent
\* messages with citations while a run is in progress, answers every
\* status fetch and fails no run.
NextShare ==
    \E h \in Handlers :
        \/ OnMessage(h)
        \/ StartResearch(h)
        \/ WarnSent(h)
        \/ StartFailed(h)
        \/ PollInProgress(h, CitePosts(h), {0})
        \/ PollTerminal(h, {})
        \/ Display(h)
        \/ ExceptEnd(h)
        \/ Return(h)

SpecShare == Init /\ [][NextShare]_vars

\* A user message arrives when the previous one is answered.  No run is
\* active then, so no such message is rejected.
OnNextMessage(h) ==
    /\ \A k \in Handlers : pc[k] \in {"idle", "gone"}
    /\ OnMessage(h)

\* The deep-research session of a user who sends the next message when the
\* previous one is answered: up to MaxRuns messages, the vendor posting any
\* of VendorMessages while the run is in progress, no iteration slow.
NextPoll ==
    \E h \in 1..MaxRuns :
        \/ OnNextMessage(h)
        \/ StartResearch(h)
        \/ StartFailed(h)
        \/ PollFetchError(h, {0})
        \/ PollInProgress(h, VendorMessages, {0})
        \/ PollFailed(h)
        \/ PollTerminal(h, {})
        \/ Display(h)
        \/ ExceptEnd(h)
        \/ Return(h)

SpecPoll == Init /\ [][NextPoll]_vars

\* The same user and a vendor that posts no agent message, with iterations
\* that take up to MaxLatency seconds more than the sleep.
NextClock ==
    \E h \in 1..MaxRuns :
        \/ OnNextMessage(h)
        \/ StartResearch(h)
        \/ StartFailed(h)
        \/ PollFetchError(h, 0..MaxLatency)
        \/ PollInProgress(h, {}, 0..MaxLatency)
        \/ PollFailed(h)
        \/ PollTerminal(h, {})
        \/ Display(h)
        \/ ExceptEnd(h)
        \/ Return(h)

SpecClock == Init /\ [][NextClock]_vars

\* =========================================================================
\* A. Deep research: the result renderer on every citation list
\* =========================================================================

\* citations on the final message
MaxCites == 3

Urls == {"u1", "u2"}
Titles == {"", "t1", "t2"}

CiteSeqs == UNION {[1..n -> [url : Urls, title : Titles]] : n \in 0..MaxCites}

\* Invocation 1 has polled its run to completion and is about to render
\* the final message, which carries any citation list.
InitRender ==
    /\ InitRT
    /\ thread_id = 1
    /\ active_run_id = 1
    /\ emitted_cot_set = FreshSet
    /\ emitted_url_lines = FreshSet
    /\ threads = 1
    /\ nruns = 1
    /\ run_status = [r \in Handlers |-> IF r = 1 THEN "completed" ELSE "none"]
    /\ last_error = [r \in Handlers |-> ""]
    /\ thread_user_msgs = 1
    /\ thread_args = {1}
    /\ last_agent_msg \in {[run |-> 1, text |-> t, cites |-> c] :
                               t \in {TxtPlain, <<>>}, c \in CiteSeqs}
    /\ pc = [h \in Handlers |-> IF h = 1 THEN "display" ELSE "idle"]
    /\ run_of = [h \in Handlers |-> IF h = 1 THEN 1 ELSE None]
    /\ elapsed = [h \in Handlers |-> 0]
    /\ sleeps = [h \in Handlers |-> 0]
    /\ gets = [h \in Handlers |-> IF h = 1 THEN 1 ELSE 0]
    /\ cot_local = [h \in Handlers |-> {}]
    /\ url_local = [h \in Handlers |-> {}]
    /\ status_panel = [h \in Handlers |->
           IF h = 1 THEN AddTok(<<>>, Tok("starting", <<>>)) ELSE <<>>]
    /\ results_panel = [h \in Handlers |-> <<>>]
    /\ reply = [h \in Handlers |-> "none"]
    /\ saw_active = [h \in Handlers |-> IF h = 1 THEN "free" ELSE "unset"]
    /\ end_calls = [h \in Handlers |-> 0]
    /\ cot_again = [h \in Handlers |-> FALSE]
    /\ polled_cots = [h \in Handlers |-> {}]
    /\ prior_cots = {}
    /\ faults = 0

NextRender ==
    \E h \in {1} :
        \/ Display(h)
        \/ ExceptEnd(h)
        \/ Return(h)

SpecRender == InitRender /\ [][NextRender]_vars

\* =========================================================================
\* A. Deep research: properties
\* =========================================================================

\* The on_message invocations that are executing a run: past _start_run,
\* in the poll loop or about to render.
Running == {h \in Handlers : pc[h] \in {"poll", "display"}}

\* C1: a session has at most one active run - at most one invocation is
\* executing a run - and an invocation whose guard found active_run_id set
\* warned the user and created no run.
C1_OneActiveRun ==
    /\ Cardinality(Running) <= 1
    /\ \A h \in Handlers :
         saw_active[h] = "active" => reply[h] = "warning" /\ run_of[h] = None

\* C2: an invocation that started a run calls _end_run exactly once: never
\* more than once, and once when it has finished.
C2_EndRunOnce ==
    \A h \in Handlers :
        run_of[h] # None =>
            /\ end_calls[h] <= 1
            /\ pc[h] = "done" => end_calls[h] = 1

CotTokens(h) == {t \in DOMAIN status_panel[h] : t.k = "cot"}

\* C3: within one run every reasoning summary is on the status panel at
\* most once; the run's dedup set holds exactly the summaries the run has
\* emitted (nothing of an earlier run), and every summary a poll extracted
\* is in it - so a text emitted by an earlier run is emitted again, once.
C3_CotOnce ==
    \A h \in Handlers :
        /\ \A t \in CotTokens(h) : status_panel[h][t] = 1
        /\ cot_local[h] = {t.v : t \in CotTokens(h)}
        /\ polled_cots[h] \subseteq cot_local[h]

\* The second run polled one summary more than once, the first run had
\* emitted the same text, the run completed: the text is on the panel once.
C3_Witness ==
    \E h \in Handlers :
        /\ run_of[h] = 2
        /\ pc[h] = "display"
        /\ run_status[2] = "completed"
        /\ cot_again[h]
        /\ \E t \in CotTokens(h) :
             /\ CotTokens(h) = {t}
             /\ t.v \in prior_cots
             /\ status_panel[h][t] = 1

\* The positions of url u in citation list c
Occurrences(c, u) == {j \in 1..Len(c) : c[j].url = u}

\* C4: the reference list holds each distinct URL of the final message's
\* citations exactly once, in order of first occurrence, with the title of
\* the URL's first occurrence, or the URL when that title is empty; it is
\* rendered whenever there are citations and rendering was not cut short
\* by an exception.
C4_ReferenceList ==
    \A h \in Handlers :
        LET c == last_agent_msg.cites
        IN  /\ \A t \in DOMAIN results_panel[h] :
                 t.k = "references" =>
                   LET n == Len(t.v) \div 2
                       first(i) == Min(Occurrences(c, t.v[2 * i]))
                   IN  /\ results_panel[h][t] = 1
                       /\ Len(t.v) = 2 * n
                       /\ {t.v[2 * i] : i \in 1..n}
                              = {c[j].url : j \in 1..Len(c)}
                       /\ \A i, j \in 1..n : i < j => first(i) < first(j)
                       /\ \A i \in 1..n :
                            t.v[2 * i - 1] =
                               IF c[first(i)].title # "" THEN c[first(i)].title
                               ELSE t.v[2 * i]
            /\ (/\ pc[h] = "done"
                /\ run_of[h] # None
                /\ Count(results_panel[h], Tok("retrieve_error", <<>>)) = 0
                /\ Count(status_panel[h], Tok("unexpected", <<>>)) = 0
                /\ c # <<>>)
               => \E t \in DOMAIN results_panel[h] : t.k = "references"

\* A URL cited three times, first without a title, around another URL.
C4_Witness ==
    /\ last_agent_msg.cites = << Cite("u1", ""), Cite("u2", "t2"),
                                 Cite("u1", "t1") >>
    /\ Count(results_panel[1],
             Tok("references", << "u1", "u1", "t2", "u2" >>)) = 1

TimeoutNotices(h) == Count(status_panel[h], Tok("timeout", <<>>))

FetchErrors(h) == Count(status_panel[h], Tok("fetch_error", <<>>))

\* C9: the poller emits at most one timeout notice, only when the elapsed
\* time exceeds RUN_TIMEOUT_SEC and - when no iteration was slow and every
\* fetch succeeded - on the first poll at which it does; the loop has then
\* ended, the run is left as the vendor last reported it (no cancellation)
\* and no status is fetched again.  A loop that ends with the run still
\* queued or in progress has emitted the notice.
C9_Timeout ==
    /\ [](\A h \in Handlers :
            /\ TimeoutNotices(h) <= 1
            /\ TimeoutNotices(h) = 1 =>
                 /\ elapsed[h] > RUN_TIMEOUT_SEC
                 /\ pc[h] # "poll"
                 /\ run_status[run_of[h]] \in {"queued", "in_progress"}
                 /\ (elapsed[h] = sleeps[h] * POLL_INTERVAL_SEC
                     /\ FetchErrors(h) = 0)
                    => elapsed[h] - POLL_INTERVAL_SEC <= RUN_TIMEOUT_SEC
            /\ (pc[h] = "display"
                /\ run_status[run_of[h]] \in {"queued", "in_progress"})
               => TimeoutNotices(h) = 1)
    /\ [][\A h \in Handlers :
            TimeoutNotices(h) = 1 /\ pc'[h] # "gone"
            => /\ gets'[h] = gets[h]
               /\ run_status'[run_of[h]] = run_status[run_of[h]]]_vars

\* Timeout 5, interval 2, no slow iteration: the notice comes with the
\* fourth fetch, at elapsed time 6.
C9_Witness ==
    \E h \in Handlers :
        /\ TimeoutNotices(h) = 1
        /\ FetchErrors(h) = 0
        /\ pc[h] = "display"
        /\ run_status[run_of[h]] = "in_progress"
        /\ elapsed[h] = 6
        /\ sleeps[h] = 3
        /\ gets[h] = 4

\* The tokens of kind k that a step adds to the status panel of h.
Added(h, k) ==
    {t \in DOMAIN status_panel'[h] :
        t.k = k /\ Count(status_panel'[h], t) > Count(status_panel[h], t)}

\* C30: in a poll iteration that no stream_token outside the try blocks
\* cuts short, a failed status fetch streams one error notice and sleeps
\* one interval; if the elapsed time then exceeds RUN_TIMEOUT_SEC the
\* poller streams one timeout notice and stops, else it polls again.  A
\* failed progress extraction streams no notice of its own; the poller
\* then stops with one timeout notice if the elapsed time exceeds
\* RUN_TIMEOUT_SEC, else sleeps one interval and polls again.  The loop
\* only ends at a terminal status or with the timeout notice.
C30_PollerResilience ==
    [][\A h \in Handlers :
         (pc[h] = "poll" /\ gets'[h] = gets[h] + 1 /\ pc'[h] # "except")
         => LET errs == Count(status_panel'[h], Tok("fetch_error", <<>>))
                        - FetchErrors(h)
                touts == Count(status_panel'[h], Tok("timeout", <<>>))
                         - TimeoutNotices(h)
                slept == /\ sleeps'[h] = sleeps[h] + 1
                         /\ elapsed'[h] >= elapsed[h] + POLL_INTERVAL_SEC
            IN  /\ errs \in {0, 1}
                /\ errs = 1
                   => /\ slept
                      /\ Added(h, "cot") \cup Added(h, "url") = {}
                      /\ IF elapsed'[h] > RUN_TIMEOUT_SEC
                         THEN touts = 1 /\ pc'[h] = "display"
                         ELSE touts = 0 /\ pc'[h] = "poll"
                /\ (errs = 0 /\ faults' > faults)
                   => /\ Added(h, "unexpected") \cup Added(h, "failed") = {}
                      /\ IF elapsed[h] > RUN_TIMEOUT_SEC
                         THEN /\ touts = 1
                              /\ pc'[h] = "display"
                              /\ sleeps'[h] = sleeps[h]
                         ELSE touts = 0 /\ pc'[h] = "poll" /\ slept
                /\ pc'[h] # "poll"
                   => \/ touts = 1
                      \/ run_status'[run_of[h]]
                            \in {"failed", "completed", "cancelled"}]_vars

\* A status fetch failed, its notice is on the panel once, and the poller
\* has slept and fetched again.
C30_Witness ==
    \E h \in Handlers :
        /\ pc[h] = "poll"
        /\ FetchErrors(h) = 1
        /\ TimeoutNotices(h) = 0
        /\ sleeps[h] >= 2
        /\ gets[h] >= 3

\* One iteration of the poll loop of invocation h
PollStep(h) ==
    \/ PollFetchError(h, 0..MaxLatency)
    \/ PollInProgress(h, {}, 0..MaxLatency)
    \/ PollFailed(h)
    \/ PollTerminal(h, {})

\* SpecClock with an event loop that resumes the poller after each of its
\* awaits (stream_token and asyncio.sleep return).
SpecClockFair ==
    SpecClock /\ \A h \in 1..MaxRuns : WF_vars(PollStep(h))

\* The status fetches of a poll loop whose iterations each take at least
\* POLL_INTERVAL_SEC: the fetches at elapsed time 0, POLL_INTERVAL_SEC, ...
\* up to RUN_TIMEOUT_SEC, and the one that finds the time exceeded.
FetchBound == RUN_TIMEOUT_SEC \div POLL_INTERVAL_SEC + 2

\* C31: whatever the vendor answers, a poll loop ends; it fetches the
\* status at most FetchBound times, streams at most one timeout notice and
\* never both the failure notice and the timeout notice.
C31_PollTerminates ==
    /\ \A h \in 1..MaxRuns : (pc[h] = "poll") ~> (pc[h] # "poll")
    /\ [](\A h \in Handlers :
            /\ gets[h] <= FetchBound
            /\ TimeoutNotices(h) <= 1
            /\ ~(/\ TimeoutNotices(h) >= 1
                 /\ Count(status_panel[h], Tok("failed", <<>>)) >= 1))

\* A loop that saw fetch errors and a run in progress, never a terminal
\* status, has ended with the timeout notice at its last allowed fetch.
C31_Witness ==
    \E h \in Handlers :
        /\ pc[h] = "display"
        /\ gets[h] = FetchBound
        /\ FetchErrors(h) = 1
        /\ TimeoutNotices(h) = 1
        /\ run_status[run_of[h]] \in {"queued", "in_progress"}

\* C32: within one run every citation line is on the status panel at most
\* once and the run's local set holds exactly the lines it emitted; the
\* session's two deduplication sets lose no element except when _start_run
\* starts a run, which empties both.
C32_CitationOnce ==
    /\ [](\A h \in Handlers :
            /\ \A t \in DOMAIN status_panel[h] :
                 t.k = "url" => status_panel[h][t] = 1
            /\ url_local[h]
                 = {t.v : t \in {x \in DOMAIN status_panel[h] : x.k = "url"}})
    /\ [][IF nruns' > nruns
          THEN emitted_cot_set'.val = {} /\ emitted_url_lines'.val = {}
          ELSE /\ emitted_cot_set.val \subseteq emitted_cot_set'.val
               /\ emitted_url_lines.val \subseteq emitted_url_lines'.val]_vars

\* C10: the poll that sees `failed` streams the failure notice, followed by
\* the vendor's last_error when there is one, and nothing else; the poll
\* that sees another terminal status streams nothing; neither loop has a
\* timeout notice, and no status is fetched after the loop.
C10_FailedRun ==
    /\ [](\A h \in Handlers :
            (pc[h] = "display"
             /\ run_status[run_of[h]] \in {"failed", "completed", "cancelled"})
            => TimeoutNotices(h) = 0)
    /\ [][\A h \in Handlers :
            /\ (pc[h] = "poll" /\ pc'[h] = "display"
                /\ run_status'[run_of[h]] = "failed")
               => status_panel'[h] =
                    IF last_error'[run_of[h]] # ""
                    THEN AddTok(AddTok(status_panel[h], Tok("failed", <<>>)),
                                Tok("detail", << last_error'[run_of[h]] >>))
                    ELSE AddTok(status_panel[h], Tok("failed", <<>>))
            /\ (pc[h] = "poll" /\ pc'[h] = "display"
                /\ run_status'[run_of[h]] \in {"completed", "cancelled"})
               => status_panel'[h] = status_panel[h]
            /\ pc[h] = "display" => gets'[h] = gets[h]]_vars

\* A run failed with last_error "rate_limited": both notices are shown.
C10_Witness ==
    \E h \in Handlers :
        /\ pc[h] = "display"
        /\ run_status[run_of[h]] = "failed"
        /\ last_error[run_of[h]] = "rate_limited"
        /\ Count(status_panel[h], Tok("failed", <<>>)) = 1
        /\ Count(status_panel[h], Tok("detail", << "rate_limited" >>)) = 1

\* =========================================================================
\* B. Realtime session: specifications and properties
\* =========================================================================

\* Turn-taking: the user types and speaks while the vendor streams text and
\* audio.
NextTurn ==
    \/ OnAudioStart
    \/ OnAudioChunk
    \/ OnMessageRT
    \/ BargeInInterrupt
    \/ BargeInRotate
    \/ BargeInFinalized
    \/ RequestResponse
    \/ MarkGenerating
    \/ VendorTurn
    \/ VendorEmit({"response.text.delta", "response.audio.delta"})
    \/ VendorDone
    \/ HandleAgentTextDelta
    \/ AgentMessageSent
    \/ HandleAgentAudioDelta
    \/ HandleResponseDone
    \/ AgentMessageUpdated
    \/ HandleErrorEvent
    \/ ErrorAgentUpdated

SpecTurn == Init /\ [][NextTurn]_vars

\* Tool calls: the user speaks and the vendor streams function-call
\* argument events.
NextTools ==
    \/ OnAudioStart
    \/ OnAudioChunk
    \/ VendorTurn
    \/ VendorEmit({"response.function_call_arguments.delta",
                   "response.function_call_arguments.done"})
    \/ VendorDone
    \/ HandleFunctionCallArgumentsDelta
    \/ HandleFunctionCallArgumentsDone
    \/ HandleResponseDone

SpecTools == Init /\ [][NextTools]_vars

\* C5: the argument string handed to tool execution is the arguments field
\* of the arguments-done event; the buffer of a pending call is the
\* concatenation, in arrival order, of the deltas dispatched for it.
C5_HandedArguments ==
    /\ \A x \in handed : x.arguments = x.event
    /\ \A c \in CallIds :
         /\ pending_function_calls[c].present
            => pending_function_calls[c].arguments = Flatten(fragments[c])
         /\ ~pending_function_calls[c].present => fragments[c] = <<>>

\* Deltas "a" then "b" for c1 and a done event with arguments "ab": the
\* task got "ab" and the entry is gone.
C5_Witness ==
    /\ \E x \in handed :
         /\ x.call_id = "c1"
         /\ x.deltas = << <<"a">>, <<"b">> >>
         /\ x.arguments = <<"a", "b">>
    /\ ~pending_function_calls["c1"].present

\* C5 as stated: the string handed to tool execution is the concatenation
\* of the deltas received for the call.
C5_Concatenation == \A x \in handed : x.arguments = Flatten(x.deltas)

\* C6: when on_message barges in, response.cancel and the audio interrupt
\* have been sent and the track id replaced, and is_generating and
\* is_playing are false and no agent message is open, at the moment the
\* user's text is submitted.
C6_BargeInOrder ==
    \A s \in submitted :
        s.barge => /\ s.cancel
                   /\ s.interrupt
                   /\ s.rotated
                   /\ ~s.gen
                   /\ ~s.play
                   /\ s.msg = None

\* C7: no audio chunk of a response that a barge-in cancelled is sent to
\* the sink on the track the barge-in rotated to, or on a later one.
C7_StaleAudio ==
    \A a \in audio_sink : \A b \in barge_ins :
        a.resp = b.resp => a.track < b.track

\* C8: forwarding a user audio chunk sends no response.cancel and no audio
\* interrupt and leaves the track id, the flags, the vendor's response and
\* the inbound events as they are, whatever is_generating and is_playing.
C8_AudioForwardOnly ==
    [][appended' # appended
       => /\ cancels' = cancels
          /\ interrupts' = interrupts
          /\ turnVars' = turnVars
          /\ vresp' = vresp
          /\ inbox' = inbox]_vars

\* A user audio chunk was forwarded while a response was being generated
\* or played.
C8_Witness == chunk_in_turn /\ appended >= 1

\* C8 as stated: a user audio chunk that arrives while is_generating or
\* is_playing is true makes the handler cancel the response, signal the
\* audio interrupt and rotate the track id before it forwards the chunk.
C8_AudioBargeIn ==
    [][(appended' # appended /\ (is_generating \/ is_playing))
       => /\ cancels' > cancels
          /\ interrupts' > interrupts
          /\ track_id' # track_id]_vars

\* Tool execution: the user speaks, the vendor's responses call functions,
\* and the tool tasks run beside the receive loop.
NextExec ==
    \/ OnAudioStart
    \/ OnAudioChunk
    \/ VendorTurn
    \/ VendorCalls
    \/ VendorDone
    \/ HandleFunctionCallArgumentsDone
    \/ HandleResponseDone
    \/ HandleErrorEvent
    \/ \E c \in CallIds :
         \/ TaskStart(c)
         \/ TaskSent(c)
         \/ TaskInputShown(c)
         \/ TaskExecuted(c)
         \/ TaskResultShown(c)
         \/ TaskFed(c)
         \/ TaskRequested(c)
         \/ TaskErrorShown(c)
         \/ TaskErrorFed(c)
         \/ TaskErrorRequested(c)

SpecExec == Init /\ [][NextExec]_vars

\* C11: the step in which a tool task's function_call_output item enters
\* the conversation leaves is_generating true, and suspends the task in
\* response.create exactly when is_generating was false before the step;
\* a task that found it true is finished.  A task's request reaches the
\* vendor only from that response.create.
C11_SingleFlight ==
    [][\A c \in CallIds :
         /\ Len(outputs'[c]) > Len(outputs[c])
            => /\ is_generating'
               /\ task'[c].pc \in {"create", "xcreate"} <=> ~is_generating
               /\ is_generating => task'[c].pc = "done"
         /\ requests'[c] > requests[c]
            => task[c].pc \in {"create", "xcreate"}]_vars

\* One task fed its result while no response was being generated and
\* requested one; another fed its result while is_generating was true and
\* requested none.
C11_Witness ==
    \E c, d \in CallIds :
        /\ task[c].pc = "done" /\ requests[c] = 1
        /\ task[d].pc = "done" /\ requests[d] = 0 /\ Len(outputs[d]) = 1

\* C12: every tool call dispatched leaves exactly one function_call_output
\* item in the conversation: no task sends a second one, a task that has
\* finished sent one, and no exception ends a task.
C12_OneOutput ==
    \A c \in CallIds :
        /\ Len(outputs[c]) <= 1
        /\ task[c].pc = "done" => Len(outputs[c]) = 1
        /\ task[c].pc # "raised"

\* The function names the vendor may send: the session's tools and one the
\* app does not define.
Names == ToolNames \cup {FunctionName[c] : c \in CallIds}

\* C13: _execute_function_call returns a payload with an "error" member
\* for an unknown function name, for arguments that are no JSON object and
\* for a tool that raises.  Once a task has its result: the result of an
\* unknown function or of arguments that are no object has an "error"
\* member; with a result that has one, the step is marked as an error and
\* every item sent for the call carries an "error" member; the item the
\* try block sends carries the result itself.
C13_ErrorsAreValues ==
    /\ \A name \in Names : \A arguments \in DoneArguments :
         \A tool_raises \in BOOLEAN :
           (\/ name \notin ToolNames
            \/ JsonLoads(arguments) # "object"
            \/ tool_raises)
           => HasError(ExecuteFunctionCall(name, arguments, tool_raises))
    /\ \A c \in CallIds :
         LET t == task[c]
         IN  t.result # Unbound
             => /\ (\/ FunctionName[c] \notin ToolNames
                    \/ JsonLoads(t.arguments) # "object")
                   => HasError(t.result)
                /\ HasError(t.result)
                   => /\ t.is_error
                      /\ \A i \in 1..Len(outputs[c]) :
                           HasError(outputs[c][i])
                /\ (outputs[c] # <<>>
                    /\ Head(outputs[c]) # Payload("exception"))
                   => Head(outputs[c]) = t.result

\* The call of the unknown function and a call of get_weather whose tool
\* raised have finished: each left its error payload in the conversation
\* and its step marked as an error.
C13_Witness ==
    /\ task["c2"].pc = "done"
    /\ outputs["c2"] = << Payload("unknown") >>
    /\ task["c2"].is_error
    /\ task["c1"].pc = "done"
    /\ outputs["c1"] = << Payload("tool") >>
    /\ task["c1"].is_error

\* _receive_events_loop dispatches the next inbound event of a session
\* whose responses call functions.
Dispatch ==
    \/ HandleFunctionCallArgumentsDone
    \/ HandleResponseDone
    \/ HandleErrorEvent

\* C14: whatever the tool tasks are doing, a receive loop that has not
\* returned can dispatch the next inbound event: it never waits for a task.
C14_DispatcherFree ==
    (recv_task \notin {"none", "ended"} /\ inbox # <<>>) => ENABLED Dispatch

\* Two tool tasks are both awaiting their tools while an inbound event is
\* waiting for the receive loop.
C14_Witness ==
    /\ recv_task = "running"
    /\ inbox # <<>>
    /\ \A c \in CallIds : task[c].pc = "exec"

\* Streaming with a failing UI: the vendor streams text and audio and a
\* handler's UI call may raise.
NextLoop ==
    \/ OnAudioStart
    \/ OnAudioChunk
    \/ VendorTurn
    \/ VendorEmit({"response.text.delta", "response.audio.delta"})
    \/ VendorDone
    \/ HandleAgentTextDelta
    \/ AgentMessageSent
    \/ HandleAgentAudioDelta
    \/ HandleResponseDone
    \/ AgentMessageUpdated
    \/ HandlerRaises

SpecLoop == Init /\ [][NextLoop]_vars

\* C15: a handler's failure does not end event dispatching: the receive
\* loop of a connected session is running.
C15_LoopSurvives == connection # None => recv_task = "running"

\* C16: the dispatch of a realtime `error` event renders a notice: a
\* message is added to the UI in that step.
C16_ErrorEventRendered ==
    [][(/\ inbox # <<>>
        /\ Head(inbox).type = "error"
        /\ inbox' = Tail(inbox))
       => ui_messages' > ui_messages]_vars

\* =========================================================================
\* A. Deep research: run guard and thread properties
\* =========================================================================

\* C17: no step of an invocation whose guard found a run active - the step
\* that warns included - changes active_run_id, the thread, the thread's
\* user messages, the vendor's runs or the contents of the two
\* deduplication sets, and the step of the guard sends the warning.
C17_RejectedChangesNothing ==
    [][\A h \in Handlers :
         (/\ saw_active[h] = "active" \/ saw_active'[h] = "active"
          /\ pc'[h] # pc[h])
         => /\ active_run_id' = active_run_id
            /\ thread_id' = thread_id
            /\ thread_user_msgs' = thread_user_msgs
            /\ nruns' = nruns
            /\ emitted_cot_set'.val = emitted_cot_set.val
            /\ emitted_url_lines'.val = emitted_url_lines.val
            /\ saw_active[h] # "active" => reply'[h] = "warning"]_vars

\* C18: while a vendor run started for the session is queued or in
\* progress, active_run_id is set.
C18_ActiveWhileRunning ==
    (\E r \in 1..nruns : run_status[r] \in {"queued", "in_progress"})
    => active_run_id # None

\* C19: at most one vendor thread is created, messages.create and
\* runs.create are only ever called with the session's thread_id, and
\* thread_id, once set, never changes.
C19_ThreadReuse ==
    /\ [](threads <= 1 /\ thread_args \subseteq {thread_id})
    /\ [][thread_id # None => thread_id' = thread_id]_vars

\* Two runs were started, and two user messages added, on the one thread.
C19_Witness ==
    /\ threads = 1
    /\ thread_id = 1
    /\ nruns = 2
    /\ thread_user_msgs >= 2
    /\ thread_args = {1}

\* C20: an invocation that calls _end_run while a run is active is the
\* invocation that started that run.
C20_OwnerReleases ==
    [][\A h \in Handlers :
         (end_calls'[h] > end_calls[h] /\ active_run_id # None)
         => run_of[h] = active_run_id]_vars

\* =========================================================================
\* B. Realtime session: response requests
\* =========================================================================

\* A session of typed messages whose responses call functions: on_message,
\* the receive loop and the tool tasks side by side.
NextSession ==
    \/ OnAudioStart
    \/ OnMessageRT
    \/ BargeInInterrupt
    \/ BargeInRotate
    \/ RequestResponse
    \/ MarkGenerating
    \/ VendorCalls
    \/ VendorDone
    \/ HandleFunctionCallArgumentsDone
    \/ HandleResponseDone
    \/ HandleErrorEvent
    \/ \E c \in CallIds :
         \/ TaskStart(c)
         \/ TaskSent(c)
         \/ TaskInputShown(c)
         \/ TaskExecuted(c)
         \/ TaskResultShown(c)
         \/ TaskFed(c)
         \/ TaskRequested(c)
         \/ TaskErrorShown(c)
         \/ TaskErrorFed(c)
         \/ TaskErrorRequested(c)

SpecSession == Init /\ [][NextSession]_vars

\* C21: no two response.create requests are sent on the connection without
\* a response.done or error event handled, or a response.cancel sent,
\* between them.
C21_NoOverlap == since_create <= 1

\* C22: while a response the app requested has not had its response.done
\* or error event handled, the handling of the response.done event of
\* another response leaves is_generating true.
C22_TracksCurrent ==
    [][(/\ inbox # <<>>
        /\ inbox' = Tail(inbox)
        /\ Head(inbox).type = "response.done"
        /\ req_open \ {Head(inbox).resp} # {}
        /\ is_generating)
       => is_generating']_vars

\* =========================================================================
\* B. Realtime session: agent and user messages
\* =========================================================================

\* Typed turns answered in text: the vendor streams text and transcript
\* deltas, their done events and error events while the user types.
NextText ==
    \/ OnAudioStart
    \/ OnMessageRT
    \/ BargeInInterrupt
    \/ BargeInRotate
    \/ BargeInFinalized
    \/ RequestResponse
    \/ MarkGenerating
    \/ VendorEmit({"response.text.delta", "response.audio_transcript.delta",
                   "response.text.done", "response.audio_transcript.done"})
    \/ VendorDone
    \/ VendorError
    \/ HandleAgentTextDelta
    \/ HandleAgentAudioTranscriptDelta
    \/ AgentMessageSent
    \/ FinalizeAgentMessage
    \/ AgentMessageUpdated
    \/ HandleResponseDone
    \/ HandleErrorEvent
    \/ ErrorAgentUpdated

SpecText == Init /\ [][NextText]_vars

\* The coroutines suspended in the update() of agent message h.
Finalizing(h) ==
    \/ rpc.at \in {"update", "error"} /\ rpc.msg = h
    \/ mpc = "update" /\ current_response_message = h

\* C23: no agent message is updated twice; a message that is still the
\* session's current one after its update has a coroutine suspended in
\* that update; and every message that was the current one and no longer
\* is has been updated once.
C23_FinalizedOnce ==
    \A h \in 1..Len(agent_msgs) :
        /\ agent_msgs[h].updates <= 1
        /\ (agent_msgs[h].updates >= 1 /\ current_response_message = h)
           => Finalizing(h)
        /\ (current_response_message # h
            /\ ~(rpc.at = "send" /\ rpc.msg = h))
           => agent_msgs[h].updates = 1

\* C24: the content of an agent message never holds both a text delta and
\* an audio-transcript delta of one response.
C24_TextOrTranscript ==
    \A h \in 1..Len(agent_msgs) :
        \A i, j \in 1..Len(agent_msgs[h].content) :
            LET c == agent_msgs[h].content
            IN  c[i].resp = c[j].resp => c[i].kind = c[j].kind

\* The calls whose tasks, since the last response.done or error event was
\* handled, fed their result on track t and went on to request a response.
Askers(t) == {x.call_id : x \in {y \in completions : y.asked /\ y.track = t}}

\* C25: of the tool tasks that feed their results with no response.done or
\* error event handled and no barge-in of on_message between them, at most
\* one requests a response, and each has its item in the conversation.
C25_NoDoubleTrigger ==
    /\ \A x \in completions : Cardinality(Askers(x.track)) <= 1
    /\ \A x \in completions : outputs[x.call_id] # <<>>

\* Two tasks fed their results, with no response.done, error event or
\* barge-in between them: the first requested a response, the second did
\* not.
C25_Witness ==
    \E x, y \in completions :
        /\ x.call_id # y.call_id
        /\ x.track = y.track
        /\ x.asked
        /\ ~y.asked
        /\ outputs[x.call_id] # <<>>
        /\ outputs[y.call_id] # <<>>
        /\ requests[x.call_id] = 1
        /\ task[y.call_id].pc = "done"

\* C25 as stated: of the tool tasks that feed their results with no
\* response.done or error event handled between them, at most one requests
\* a response.
C25_OnePerDone ==
    Cardinality({x.call_id : x \in {y \in completions : y.asked}}) <= 1

\* A session of speech and typed messages: the vendor transcribes the
\* user's speech, streams the text and audio of the responses on_message
\* requests, and may report errors.
NextReply ==
    \/ OnAudioStart
    \/ OnAudioChunk
    \/ OnMessageRT
    \/ BargeInInterrupt
    \/ BargeInRotate
    \/ BargeInFinalized
    \/ RequestResponse
    \/ MarkGenerating
    \/ VendorTranscribes
    \/ VendorEmit({"response.text.delta", "response.audio.delta"})
    \/ VendorDone
    \/ VendorError
    \/ HandleUserTranscriptionDelta
    \/ UserMessageSent
    \/ HandleUserTranscriptionCompleted
    \/ HandleUserTranscriptionFailed
    \/ UserMessageUpdated
    \/ HandleAgentTextDelta
    \/ AgentMessageSent
    \/ HandleAgentAudioDelta
    \/ HandleResponseDone
    \/ AgentMessageUpdated
    \/ HandleErrorEvent
    \/ ErrorAgentUpdated

SpecReply == Init /\ [][NextReply]_vars

\* The receive loop takes, in this step, the next inbound event, which is
\* of the given type.
Dispatches(type) ==
    /\ inbox # <<>>
    /\ Head(inbox).type = type
    /\ inbox' = Tail(inbox)

\* C26: the step that dispatches a response.done event clears
\* is_generating, is_playing and text_stream_locked and, with no agent
\* message open, leaves current_response_message None; with one open it
\* calls update() on it, and when the handler returns from that update
\* is_playing and text_stream_locked are false and
\* current_response_message is None.  Neither step changes
\* current_user_message, track_id or pending_function_calls.
C26_ResponseDone ==
    [][/\ Dispatches("response.done")
          => /\ ~is_generating'
             /\ ~is_playing'
             /\ ~text_stream_locked'
             /\ IF current_response_message = None
                THEN /\ current_response_message' = None
                     /\ rpc' = Idle
                     /\ agent_msgs' = agent_msgs
                ELSE /\ rpc'.at = "update"
                     /\ agent_msgs' =
                            Updated(agent_msgs, current_response_message)
             /\ current_user_message' = current_user_message
             /\ user_msgs' = user_msgs
             /\ track_id' = track_id
             /\ pending_function_calls' = pending_function_calls
       /\ (rpc.at = "update" /\ rpc' = Idle)
          => /\ current_response_message' = None
             /\ ~is_playing'
             /\ ~text_stream_locked'
             /\ current_user_message' = current_user_message
             /\ track_id' = track_id
             /\ pending_function_calls' = pending_function_calls]_vars

\* The response.done event of a response that streamed text and audio was
\* handled while a user message was open: the agent message was updated
\* once and is no longer the current one, the flags are false and the user
\* message is still open.
C26_Witness ==
    /\ rpc = Idle
    /\ inbox = <<>>
    /\ nresp = 1
    /\ vresp = None
    /\ audio_sink # {}
    /\ Len(agent_msgs) = 1
    /\ agent_msgs[1].updates = 1
    /\ agent_msgs[1].content # <<>>
    /\ current_response_message = None
    /\ ~is_generating
    /\ ~is_playing
    /\ ~text_stream_locked
    /\ current_user_message # None
    /\ mpc = "idle"

\* C27: the step that dispatches an error event clears is_generating and
\* text_stream_locked and calls update() on the open agent message, or
\* with none open on the open user message; when the agent message's
\* update returns current_response_message is set to None and the open
\* user message is updated; when the user message's update returns
\* current_user_message is set to None.  When the handler returns both
\* messages are None and text_stream_locked is false.  No step of the
\* handler changes is_playing, track_id or pending_function_calls, and the
\* receive loop is left running.
C27_ErrorEvent ==
    [][/\ Dispatches("error")
          => /\ ~is_generating'
             /\ ~text_stream_locked'
             /\ IF current_response_message # None
                THEN /\ rpc'.at = "error"
                     /\ agent_msgs' =
                            Updated(agent_msgs, current_response_message)
                     /\ user_msgs' = user_msgs
                ELSE IF current_user_message # None
                THEN /\ rpc'.at = "error_user"
                     /\ user_msgs' = Updated(user_msgs, current_user_message)
                     /\ agent_msgs' = agent_msgs
                ELSE /\ rpc' = Idle
                     /\ agent_msgs' = agent_msgs
                     /\ user_msgs' = user_msgs
       /\ (rpc.at = "error" /\ rpc' # rpc)
          => /\ current_response_message' = None
             /\ IF current_user_message # None
                THEN /\ rpc'.at = "error_user"
                     /\ user_msgs' = Updated(user_msgs, current_user_message)
                ELSE rpc' = Idle
       /\ (rpc.at = "error_user" /\ rpc' # rpc)
          => /\ current_user_message' = None
             /\ rpc' = Idle
       /\ (\/ Dispatches("error")
           \/ rpc.at \in {"error", "error_user"} /\ rpc' # rpc)
          => /\ is_playing' = is_playing
             /\ track_id' = track_id
             /\ pending_function_calls' = pending_function_calls
             /\ recv_task' = "running"
             /\ rpc' = Idle
                => /\ current_response_message' = None
                   /\ current_user_message' = None
                   /\ ~text_stream_locked']_vars

\* An error event was handled while an agent message and a user message
\* were open, a response requested by on_message was in progress and the
\* utterance was still being transcribed: both messages were updated once
\* and are no longer current, is_generating is false, and the receive loop
\* is running and between events.
C27_Witness ==
    /\ recv_task = "running"
    /\ rpc = Idle
    /\ vresp # None
    /\ nresp = 1
    /\ cancels = 0
    /\ texts = 1
    /\ mpc = "idle"
    /\ transcribing.open
    /\ Len(agent_msgs) = 1
    /\ agent_msgs[1].updates = 1
    /\ current_response_message = None
    /\ Len(user_msgs) = 1
    /\ user_msgs[1].updates = 1
    /\ current_user_message = None
    /\ ~is_generating
    /\ ~text_stream_locked

\* The user messages that show text of utterance u.
Showing(u) ==
    {h \in 1..Len(user_msgs) :
        \E i \in 1..Len(user_msgs[h].content) :
            user_msgs[h].content[i].resp = u}

\* C28: for every utterance at most one user message is rendered.
C28_OneUserMessage ==
    \A u \in 1..transcribing.n : Cardinality(Showing(u)) <= 1

\* =========================================================================
\* B. Realtime session: pending tool calls
\* =========================================================================

\* C29: a call id has a pending entry exactly while deltas were dispatched
\* for it and its arguments-done event was not.  The dispatch of a delta
\* for a call id creates the entry if there is none and appends the delta
\* to it; the dispatch of the arguments-done event deletes it; both leave
\* the entries of the other call ids as they are, and no other step
\* changes pending_function_calls.
C29_PendingLifecycle ==
    /\ [](\A c \in CallIds :
            pending_function_calls[c].present <=> fragments[c] # <<>>)
    /\ [][LET e == Head(inbox)
              delta == Dispatches("response.function_call_arguments.delta")
              done == Dispatches("response.function_call_arguments.done")
          IN  /\ delta
                 => /\ pending_function_calls'[e.call].present
                    /\ pending_function_calls'[e.call].arguments =
                           pending_function_calls[e.call].arguments \o e.data
              /\ done => ~pending_function_calls'[e.call].present
              /\ (delta \/ done)
                 => \A d \in CallIds \ {e.call} :
                        pending_function_calls'[d] = pending_function_calls[d]
              /\ ~(delta \/ done)
                 => pending_function_calls' = pending_function_calls]_vars

\* Deltas were dispatched for c1 and for c2 and then the arguments-done
\* event of c2: the entry of c2 is gone, the entry of c1 holds its delta.
C29_Witness ==
    /\ pending_function_calls["c1"].present
    /\ pending_function_calls["c1"].arguments # <<>>
    /\ ~pending_function_calls["c2"].present
    /\ \E x \in handed : x.call_id = "c2" /\ x.deltas # <<>>

\* =========================================================================
\* B. Realtime session: teardown and reconnection
\* =========================================================================

\* A voice session that is torn down at any moment and started again: the
\* user speaks, the vendor answers with text, audio and function-call
\* argument deltas, and on_chat_end / on_stop runs beside the receive loop.
NextTeardown ==
    \/ OnAudioStart
    \/ OnAudioChunk
    \/ VendorTurn
    \/ VendorEmit({"response.text.delta", "response.audio.delta",
                   "response.function_call_arguments.delta"})
    \/ VendorDone
    \/ HandleAgentTextDelta
    \/ AgentMessageSent
    \/ HandleAgentAudioDelta
    \/ HandleFunctionCallArgumentsDelta
    \/ HandleResponseDone
    \/ AgentMessageUpdated
    \/ OnChatEnd
    \/ ChatEndJoined
    \/ ChatEndClosed

SpecTeardown == Init /\ [][NextTeardown]_vars

\* The session keys that on_chat_end sets to None are None.
TornDown ==
    /\ connection = None
    /\ cm = None
    /\ recv_task = "none"
    /\ current_response_message = None
    /\ current_user_message = None

\* C33: no exception leaves on_chat_end.  An invocation that finds the
\* receive task running cancels and awaits it; from then on, and while the
\* session has no connection, the receive loop is in no handler and
\* dispatches nothing.  An invocation that finds a connection manager
\* closes it before it ends, and when an invocation ends the connection,
\* the manager, the receive task and both message handles are None.
C33_Teardown ==
    /\ [](~escaped)
    /\ [](epc # "idle" => recv_task # "running" /\ rpc = Idle)
    /\ [](connection = None => TornDown /\ rpc = Idle)
    /\ [][/\ (epc = "idle" /\ epc' # "idle" /\ recv_task = "running")
             => epc' = "join" /\ recv_task' = "ended"
          /\ (epc # "idle" /\ epc' = "idle")
             => /\ TornDown'
                /\ cm # None => epc = "close" /\ closes >= 1
          /\ (recv_task # "running" \/ epc # "idle")
             => /\ Len(inbox') >= Len(inbox) \/ connection' # connection
                /\ agent_msgs' = agent_msgs
                /\ audio_sink' = audio_sink]_vars

\* The session was torn down while a response was being rendered: events
\* of it were left undispatched.
C33_Witness ==
    /\ closes = 1
    /\ epc = "idle"
    /\ TornDown
    /\ ui_messages >= 1
    /\ inbox # <<>>

\* A voice session whose responses call functions and that is torn down at
\* any moment: the tool tasks run beside the receive loop and on_chat_end.
NextClose ==
    \/ OnAudioStart
    \/ OnAudioChunk
    \/ VendorTurn
    \/ VendorCalls
    \/ VendorDone
    \/ HandleFunctionCallArgumentsDone
    \/ HandleResponseDone
    \/ OnChatEnd
    \/ ChatEndJoined
    \/ ChatEndClosed
    \/ \E c \in CallIds :
         \/ TaskStart(c)
         \/ TaskSent(c)
         \/ TaskInputShown(c)
         \/ TaskExecuted(c)
         \/ TaskResultShown(c)
         \/ TaskFed(c)
         \/ TaskRequested(c)
         \/ TaskErrorShown(c)
         \/ TaskErrorFed(c)
         \/ TaskErrorRequested(c)

SpecClose == Init /\ [][NextClose]_vars

\* C34: when no UI call has failed, no transport request is issued on a
\* connection that on_chat_end closed, and no tool task that holds such a
\* connection is ended by an exception.
C34_NoWorkOnClosed ==
    ui_faults = 0
    => /\ dead = {}
       /\ \A c \in stale : task[c].pc # "raised"

\* C35: whenever a connection is established, is_generating, is_playing and
\* text_stream_locked are false and pending_function_calls is empty, so
\* that a text message sent next (on_message, line 671) does not take the
\* barge-in path.
C35_FreshTurnState ==
    [][(connection = None /\ connection' # None)
       => /\ ~is_generating'
          /\ ~is_playing'
          /\ ~text_stream_locked'
          /\ \A c \in CallIds : ~pending_function_calls'[c].present]_vars

\* A text delta of response r was handled: its token is in an agent message.
TextOf(r) ==
    \E m \in 1..Len(agent_msgs) :
        \E i \in 1..Len(agent_msgs[m].content) :
            agent_msgs[m].content[i] = Token("text", r)

\* The delta events of a response that the dispatcher renders.
DeltaTypes ==
    {"response.text.delta", "response.audio_transcript.delta",
     "response.audio.delta", "response.function_call_arguments.delta"}

\* C36: when the dispatcher handles a delta of a response while
\* text_stream_locked is set, a text delta of that same response was
\* handled before (the lock is never the one an earlier response left
\* behind, also after a barge-in); and a transcript delta of a response of
\* which no text delta was handled is rendered.
C36_LockWithinResponse ==
    [][\A type \in DeltaTypes :
         (connection # None /\ connection' = connection /\ Dispatches(type))
         => /\ text_stream_locked => TextOf(Head(inbox).resp)
            /\ (/\ type = "response.audio_transcript.delta"
                /\ ~TextOf(Head(inbox).resp))
               => agent_msgs' # agent_msgs]_vars

\* The step streams a reasoning summary or a citation line to the status
\* panel of invocation h (lines 161 and 172).
EmitsProgress(h) ==
    \E t \in DOMAIN status_panel'[h] :
        /\ t.k \in {"cot", "url"}
        /\ Count(status_panel'[h], t) > Count(status_panel[h], t)

\* C37: every reasoning summary and citation the poller of a run emits is
\* taken from an agent message of that run: the message that
\* get_last_message_by_role returned at the emitting poll was produced by
\* the run being polled, never by an earlier run on the same thread.
C37_ProgressOfCurrentRun ==
    [][\A h \in Handlers :
         EmitsProgress(h) => last_agent_msg'.run = run_of[h]]_vars

====
